---- MODULE Spec2Model ----
(***************************************************************************)
(* Verification model of dynamic_pathfinding: the grid, the D* Lite        *)
(* engine (algorithms/d_star_lite.rs), the A* engine, DStarLiteSimple and   *)
(* the hybrid dispatcher.                                                   *)
(***************************************************************************)
EXTENDS Integers, Sequences, FiniteSets, TLC

VARIABLES
    grid,        \* Grid: [size, cells, start, goal]
    dsl,         \* DStarLite: its fields, named as in d_star_lite.rs
    pc,          \* position inside DStarLite::find_path
    call,        \* arguments of the find_path call in progress / last made
    pending,     \* update_changed_obstacles: positions_to_update not yet visited
    todo,        \* compute_shortest_path: update_vertex calls left in this iteration
    iterations,  \* compute_shortest_path: the local `iterations`
    csp_exit,    \* how compute_shortest_path last left its loop
    result,      \* value returned by the last find_path call
    prev,        \* the call before the last one, with its result
    calls,       \* number of find_path calls completed
    after,       \* the DStarLite procedure that returned last
    hybrid,      \* HybridAStarDStar: its fields, named as in hybrid_a_star_d_star.rs
    branch,      \* the branch of HybridAStarDStar::find_path that served the last call
    obs,         \* what an observer of the hybrid's calls has seen (no program state)
    sim,         \* Simulation: its fields and the locals of run, named as in simulation.rs
    seen,        \* what an observer of the run has seen in the current tick (no program state)
    batch,       \* BatchSimulation and the locals of run_configuration, named as in batch_simulation.rs
    simple       \* DStarLiteSimple, the locals of its find_path and what an observer of its queue has seen

vars == <<grid, dsl, pc, call, pending, todo, iterations, csp_exit, result, prev, calls, after,
          hybrid, branch, obs, sim, seen, batch, simple>>

-----------------------------------------------------------------------------
(* Bounds of the model *)

MaxCalls == 3
MaxObstacles == 1
MaxGroups == 2
MaxSimulations == 2
MaxHistory == 2

-----------------------------------------------------------------------------
(* Integers and options *)

\* i32::MAX, the value the engines use for infinity
Inf == 2147483647

\* Option::None of Option<Vec<Position>>; Some(path) is the non-empty path
None == <<>>

Abs(x) == IF x < 0 THEN -x ELSE x

\* i32::saturating_add on non-negative operands
saturating_add(a, b) == IF a >= Inf - b THEN Inf ELSE a + b

Min2(a, b) == IF a <= b THEN a ELSE b

Manhattan(a, b) == Abs(a[1] - b[1]) + Abs(a[2] - b[2])

\* HashMap::get(..).unwrap_or(&i32::MAX)
GetOr(map, pos) == IF pos \in DOMAIN map THEN map[pos] ELSE Inf

\* HashMap::insert
MapInsert(map, pos, v) ==
    [p \in (DOMAIN map) \cup {pos} |-> IF p = pos THEN v ELSE map[p]]

\* Iterator::min_by_key: the first element with the smallest key (0 = None)
MinByKeyIndex(s, K(_)) ==
    IF s = <<>> THEN 0
    ELSE CHOOSE i \in 1..Len(s) :
            /\ \A j \in 1..Len(s) : K(s[i]) <= K(s[j])
            /\ \A j \in 1..(i - 1) : K(s[j]) > K(s[i])

SeqToSet(s) == {s[i] : i \in 1..Len(s)}

-----------------------------------------------------------------------------
(* grid.rs *)

Positions(size) == (0..(size - 1)) \X (0..(size - 1))

MakeGrid(size, walls, start, goal) ==
    [size  |-> size,
     cells |-> [p \in Positions(size) |-> IF p \in walls THEN "Wall" ELSE "Empty"],
     start |-> start,
     goal  |-> goal]

\* the (dx, dy) order of Grid::get_neighbors
Directions == << <<0, 1>>, <<0, -1>>, <<1, 0>>, <<-1, 0>> >>

InBounds(g, p) == p[1] >= 0 /\ p[1] < g.size /\ p[2] >= 0 /\ p[2] < g.size

\* Grid::get_neighbors: in-bounds, non-Wall 4-neighbours in direction order
get_neighbors(g, pos) ==
    LET cand == [i \in 1..4 |-> <<pos[1] + Directions[i][1], pos[2] + Directions[i][2]>>]
    IN  SelectSeq(cand, LAMBDA q : InBounds(g, q) /\ g.cells[q] # "Wall")

-----------------------------------------------------------------------------
(* d_star_lite.rs: Key and the queue of (Key, Position) *)

\* Key::cmp is reversed: a < b in Rust's order iff a is numerically greater
KeyLt(a, b) == b[1] < a[1] \/ (b[1] = a[1] /\ b[2] < a[2])

\* derived Ord of Position: x, then y
PosLt(a, b) == a[1] < b[1] \/ (a[1] = b[1] /\ a[2] < b[2])

\* Ord of the tuple (Key, Position)
EntryLt(e, f) == KeyLt(e[1], f[1]) \/ (e[1] = f[1] /\ PosLt(e[2], f[2]))

\* BinaryHeap::peek / pop: the greatest entry
QueueTop(queue) == CHOOSE e \in queue : \A f \in queue : f = e \/ EntryLt(f, e)

-----------------------------------------------------------------------------
(* d_star_lite.rs: DStarLite *)

DStarLite_new(start, goal) ==
    [g_scores   |-> << >>,
     rhs_scores |-> << >>,
     queue      |-> {},
     k_m        |-> 0,
     start      |-> start,
     goal       |-> goal,
     last_start |-> start,
     initial_computation_done |-> FALSE]

heuristic(self, pos) == Manhattan(pos, self.start)

calculate_key(self, pos) ==
    LET min_score == Min2(GetOr(self.g_scores, pos), GetOr(self.rhs_scores, pos))
    IN  IF min_score = Inf THEN <<Inf, Inf>>
        ELSE <<saturating_add(saturating_add(min_score, heuristic(self, pos)), self.k_m),
               min_score>>

initialize(self) ==
    IF ~self.initial_computation_done
    THEN LET s1 == [self EXCEPT !.rhs_scores = MapInsert(@, self.goal, 0)]
         IN  [s1 EXCEPT !.queue = @ \cup {<<calculate_key(s1, s1.goal), s1.goal>>},
                        !.initial_computation_done = TRUE]
    ELSE self

\* get_edge_cost without the obstacle test
get_edge_cost_ignoring_obstacles(from, to, g, obstacles) ==
    IF to[1] >= g.size \/ to[2] >= g.size THEN Inf
    ELSE IF g.cells[to] = "Wall" THEN Inf
    ELSE 1

get_edge_cost(from, to, g, obstacles) ==
    IF to[1] >= g.size \/ to[2] >= g.size THEN Inf
    ELSE IF to \in obstacles \/ g.cells[to] = "Wall" THEN Inf
    ELSE 1

RECURSIVE MinRhs(_, _, _, _, _, _)
\* the loop of update_vertex over the predecessors of pos
MinRhs(self, pos, preds, g, obstacles, min_rhs) ==
    IF preds = <<>> THEN min_rhs
    ELSE LET pred      == Head(preds)
             g_pred    == GetOr(self.g_scores, pred)
             edge_cost == get_edge_cost(pred, pos, g, obstacles)
             next      == IF g_pred # Inf /\ edge_cost # Inf
                          THEN Min2(min_rhs, saturating_add(g_pred, edge_cost))
                          ELSE min_rhs
         IN  MinRhs(self, pos, Tail(preds), g, obstacles, next)

\* update_vertex without the removal of the old queue entry
update_vertex_keeping_entry(self, pos, g, obstacles) ==
    LET s1 == IF pos # self.goal
              THEN [self EXCEPT !.rhs_scores =
                        MapInsert(@, pos, MinRhs(self, pos, get_neighbors(g, pos), g, obstacles, Inf))]
              ELSE self
    IN  IF GetOr(s1.g_scores, pos) # GetOr(s1.rhs_scores, pos)
        THEN [s1 EXCEPT !.queue = @ \cup {<<calculate_key(s1, pos), pos>>}]
        ELSE s1

update_vertex(self, pos, g, obstacles) ==
    LET s1 == IF pos # self.goal
              THEN [self EXCEPT !.rhs_scores =
                        MapInsert(@, pos, MinRhs(self, pos, get_neighbors(g, pos), g, obstacles, Inf))]
              ELSE self
        s2 == [s1 EXCEPT !.queue = {e \in @ : e[2] # pos}]
    IN  IF GetOr(s2.g_scores, pos) # GetOr(s2.rhs_scores, pos)
        THEN [s2 EXCEPT !.queue = @ \cup {<<calculate_key(s2, pos), pos>>}]
        ELSE s2

start_is_processed(self) == GetOr(self.g_scores, self.start) # Inf

start_is_consistent(self) ==
    LET start_g   == GetOr(self.g_scores, self.start)
        start_rhs == GetOr(self.rhs_scores, self.start)
    IN  start_g # Inf /\ start_rhs # Inf /\ start_g = start_rhs

\* the `should_continue` of compute_shortest_path (queue non-empty)
should_continue(self) ==
    \/ KeyLt(QueueTop(self.queue)[1], calculate_key(self, self.start))
    \/ ~start_is_consistent(self)
    \/ ~start_is_processed(self)

\* compute_shortest_path, lines 194-228 up to the first update_vertex: pops the
\* top entry and either reinserts it or sets g; returns the engine and the
\* update_vertex calls the iteration still has to make, in order
pop_and_set_g(self, g) ==
    LET top   == QueueTop(self.queue)
        k_old == top[1]
        u     == top[2]
        s1    == [self EXCEPT !.queue = @ \ {top}]
        k_new == calculate_key(s1, u)
        g_u   == GetOr(s1.g_scores, u)
        rhs_u == GetOr(s1.rhs_scores, u)
    IN  IF KeyLt(k_old, k_new)
        THEN [self |-> [s1 EXCEPT !.queue = @ \cup {<<k_new, u>>}], todo |-> <<>>]
        ELSE IF g_u > rhs_u
        THEN [self |-> [s1 EXCEPT !.g_scores = MapInsert(@, u, rhs_u)],
              todo |-> get_neighbors(g, u)]
        ELSE [self |-> [s1 EXCEPT !.g_scores = MapInsert(@, u, Inf)],
              todo |-> <<u>> \o get_neighbors(g, u)]

\* the filter shared by extract_path and find_alternative_path
Unblocked(self, current, neighbors, visited, g, obstacles) ==
    SelectSeq(neighbors,
              LAMBDA pos : get_edge_cost(current, pos, g, obstacles) # Inf
                           /\ pos \notin visited)

find_alternative_path(self, current, visited, g, obstacles) ==
    LET cand == Unblocked(self, current, get_neighbors(g, current), visited, g, obstacles)
        i    == MinByKeyIndex(cand, LAMBDA pos : Manhattan(pos, self.goal))
    IN  IF i = 0 THEN None ELSE <<cand[i]>>

\* the min_by_key key of extract_path
extract_key(self, current, pos, g, obstacles) ==
    LET g_val     == GetOr(self.g_scores, pos)
        edge_cost == get_edge_cost(current, pos, g, obstacles)
    IN  IF g_val = Inf \/ edge_cost = Inf THEN Inf
        ELSE saturating_add(g_val, Manhattan(pos, self.goal))

RECURSIVE extract_loop(_, _, _, _, _, _)
\* the while loop of extract_path
extract_loop(self, g, obstacles, path, current, visited) ==
    IF current = self.goal THEN path
    ELSE IF current \in visited THEN None
    ELSE LET vis  == visited \cup {current}
             cand == Unblocked(self, current, get_neighbors(g, current), vis, g, obstacles)
             i    == MinByKeyIndex(cand, LAMBDA pos : extract_key(self, current, pos, g, obstacles))
         IN  IF i # 0
             THEN LET next == cand[i]
                  IN  IF GetOr(self.g_scores, next) = Inf THEN None
                      ELSE IF Len(path) + 1 > g.size * g.size THEN None
                      ELSE extract_loop(self, g, obstacles, Append(path, next), next, vis)
             ELSE LET alt == find_alternative_path(self, current, vis, g, obstacles)
                  IN  IF alt = None THEN None
                      ELSE extract_loop(self, g, obstacles, Append(path, alt[1]), alt[1], vis)

extract_path(self, g, obstacles) ==
    IF GetOr(self.g_scores, self.start) = Inf THEN None
    ELSE extract_loop(self, g, obstacles, <<self.start>>, self.start, {})

check_obstacles_changed(current_obstacles) == current_obstacles # {}

\* update_changed_obstacles: the set positions_to_update
positions_to_update(self, g, obstacles) ==
    obstacles
      \cup UNION {SeqToSet(get_neighbors(g, o)) : o \in obstacles}
      \cup {self.start}
      \cup SeqToSet(get_neighbors(g, self.start))

\* find_path that stores a new goal without building a new engine
enter_find_path_keeping_scores(self, g, start, goal, obstacles) ==
    LET s0 == [self EXCEPT !.goal = goal]
    IN  IF s0.start # start
        THEN LET s1 == IF s0.initial_computation_done
                       THEN [s0 EXCEPT !.k_m = saturating_add(@, heuristic(s0, s0.last_start))]
                       ELSE s0
                 s2 == [s1 EXCEPT !.last_start = s1.start, !.start = start]
             IN  IF s2.initial_computation_done
                 THEN update_vertex(s2, s2.start, g, obstacles)
                 ELSE s2
        ELSE s0

\* find_path, lines 398-420: goal change, start change
enter_find_path(self, g, start, goal, obstacles) ==
    LET s0 == IF self.goal # goal THEN DStarLite_new(start, goal) ELSE self
    IN  IF s0.start # start
        THEN LET s1 == IF s0.initial_computation_done
                       THEN [s0 EXCEPT !.k_m = saturating_add(@, heuristic(s0, s0.last_start))]
                       ELSE s0
                 s2 == [s1 EXCEPT !.last_start = s1.start, !.start = start]
             IN  IF s2.initial_computation_done
                 THEN update_vertex(s2, s2.start, g, obstacles)
                 ELSE s2
        ELSE s0

\* an iteration budget too small to finish a search in one call
max_iterations_too_small(g) == g.size

\* let max_iterations = grid.size * grid.size * 4 (line 164)
max_iterations(g) == g.size * g.size * 4

RECURSIVE update_vertices(_, _, _, _)
\* update_vertex on each position of a list, in order (the for loops of
\* compute_shortest_path and of update_changed_obstacles)
update_vertices(self, positions, g, obstacles) ==
    IF positions = <<>> THEN self
    ELSE update_vertices(update_vertex(self, Head(positions), g, obstacles),
                         Tail(positions), g, obstacles)

\* std::collections::HashSet is iterated in an order that its RandomState
\* fixes anew for every set; an iteration takes one of these orders
HashOrders == {"xy", "yx", "reverse_xy"}

PosBefore(order, a, b) ==
    IF order = "xy" THEN PosLt(a, b)
    ELSE IF order = "yx" THEN a[2] < b[2] \/ (a[2] = b[2] /\ a[1] < b[1])
    ELSE PosLt(b, a)

RECURSIVE Iteration(_, _)
\* the positions of the set S as `for pos in &S` yields them
Iteration(S, order) ==
    IF S = {} THEN <<>>
    ELSE LET p == CHOOSE q \in S : \A r \in S : r = q \/ PosBefore(order, q, r)
         IN  <<p>> \o Iteration(S \ {p}, order)

\* update_changed_obstacles as one step, the HashSet positions_to_update
\* iterated in the given order
update_changed_obstacles(self, g, obstacles, order) ==
    update_vertices(self, Iteration(positions_to_update(self, g, obstacles), order), g, obstacles)

RECURSIVE compute_shortest_path(_, _, _, _)
\* one iteration of compute_shortest_path after the pop (lines 197-230)
compute_iteration(r, g, obstacles, iters) ==
    compute_shortest_path(update_vertices(r.self, r.todo, g, obstacles),
                          g, obstacles, iters + 1)

\* compute_shortest_path as one step (lines 160-237)
compute_shortest_path(self, g, obstacles, iters) ==
    IF self.queue = {} \/ iters >= max_iterations(g) THEN self
    ELSE IF ~should_continue(self) THEN self
    ELSE compute_iteration(pop_and_set_g(self, g), g, obstacles, iters)

\* lines 423-431: initialize, and the obstacle update
initialize_and_update(self, g, obstacles, order) ==
    IF check_obstacles_changed(obstacles)
    THEN update_changed_obstacles(self, g, obstacles, order)
    ELSE self

\* lines 437-439
extract_and_return(self, g, obstacles) ==
    [self |-> self, result |-> extract_path(self, g, obstacles)]

\* DStarLite::find_path as one step, its HashSet iterated in the given order:
\* [self, result]
DStarLite_find_path(self, g, start, goal, obstacles, order) ==
    extract_and_return(
        compute_shortest_path(
            initialize_and_update(initialize(enter_find_path(self, g, start, goal, obstacles)),
                                  g, obstacles, order),
            g, obstacles, 0),
        g, obstacles)

-----------------------------------------------------------------------------
(* std::collections::BinaryHeap, a max-heap in a vector, as a_star.rs (through
   pathfinding::astar) and d_star_lite_simple.rs use it.  Positions are the
   0-based vector indices; data[i + 1] is the element at index i. *)

\* a <= b for the two element types kept in heaps
\*   SmallestCostHolder: smaller estimated_cost is greater, then greater cost
\*   QueueEntry (d_star_lite_simple.rs lines 46-50): by key only, Key reversed
HeapLe(kind, a, b) ==
    IF kind = "SmallestCostHolder"
    THEN a.estimated_cost > b.estimated_cost
           \/ (a.estimated_cost = b.estimated_cost /\ a.cost <= b.cost)
    ELSE a.key = b.key \/ KeyLt(a.key, b.key)

RECURSIVE sift_up(_, _, _, _, _)
\* BinaryHeap::sift_up with the hole at pos holding elem
sift_up(kind, data, elem, start, pos) ==
    IF pos > start
    THEN LET parent == (pos - 1) \div 2
         IN  IF HeapLe(kind, elem, data[parent + 1])
             THEN [data EXCEPT ![pos + 1] = elem]
             ELSE sift_up(kind, [data EXCEPT ![pos + 1] = data[parent + 1]], elem, start, parent)
    ELSE [data EXCEPT ![pos + 1] = elem]

heap_push(kind, data, item) ==
    sift_up(kind, Append(data, item), item, 0, Len(data))

RECURSIVE sift_down_to_bottom(_, _, _, _, _)
\* BinaryHeap::sift_down_to_bottom: the hole goes down along the greater
\* children to a leaf, then elem is sifted up from there
sift_down_to_bottom(kind, data, elem, pos, child) ==
    LET end == Len(data)
    IN  IF child <= end - 2
        THEN LET c == IF HeapLe(kind, data[child + 1], data[child + 2])
                      THEN child + 1 ELSE child
             IN  sift_down_to_bottom(kind, [data EXCEPT ![pos + 1] = data[c + 1]],
                                     elem, c, 2 * c + 1)
        ELSE IF child = end - 1
        THEN sift_up(kind, [data EXCEPT ![pos + 1] = data[child + 1]], elem, 0, child)
        ELSE sift_up(kind, data, elem, 0, pos)

\* BinaryHeap::pop on a non-empty heap: [item, data]
heap_pop(kind, data) ==
    LET last == data[Len(data)]
        rest == SubSeq(data, 1, Len(data) - 1)
    IN  IF rest = <<>>
        THEN [item |-> last, data |-> <<>>]
        ELSE [item |-> rest[1],
              data |-> sift_down_to_bottom(kind, rest, last, 0, 1)]

-----------------------------------------------------------------------------
(* a_star.rs: AStar::find_path, the pathfinding crate's astar over the
   successors, heuristic and success closures of lines 37-55 *)

\* the successors closure without the obstacle test
astar_successors_ignoring_obstacles(g, p, obstacles) ==
    SelectSeq(get_neighbors(g, p), LAMBDA neighbor : g.cells[neighbor] # "Wall")

\* the successors closure: neighbours that are no Wall and no known obstacle
astar_successors(g, p, obstacles) ==
    SelectSeq(get_neighbors(g, p),
              LAMBDA neighbor : g.cells[neighbor] # "Wall" /\ neighbor \notin obstacles)

\* index of node in the insertion-ordered parents map, 0 when absent
ParentsIndex(parents, node) ==
    IF \E i \in 1..Len(parents) : parents[i].node = node
    THEN CHOOSE i \in 1..Len(parents) : parents[i].node = node
    ELSE 0

RECURSIVE astar_relax(_, _, _, _, _, _)
\* the loop over the successors of the node at `index`, reached with `cost`
astar_relax(succs, cost, index, goal, to_see, parents) ==
    IF succs = <<>> THEN [to_see |-> to_see, parents |-> parents]
    ELSE LET successor == Head(succs)
             new_cost  == cost + 1
             n         == ParentsIndex(parents, successor)
             h         == Manhattan(successor, goal)
         IN  IF n = 0
             THEN astar_relax(Tail(succs), cost, index, goal,
                      heap_push("SmallestCostHolder", to_see,
                                [estimated_cost |-> new_cost + h, cost |-> new_cost,
                                 index |-> Len(parents) + 1]),
                      Append(parents, [node |-> successor, parent |-> index, cost |-> new_cost]))
             ELSE IF parents[n].cost > new_cost
             THEN astar_relax(Tail(succs), cost, index, goal,
                      heap_push("SmallestCostHolder", to_see,
                                [estimated_cost |-> new_cost + h, cost |-> new_cost,
                                 index |-> n]),
                      [parents EXCEPT ![n] = [node |-> successor, parent |-> index, cost |-> new_cost]])
             ELSE astar_relax(Tail(succs), cost, index, goal, to_see, parents)

RECURSIVE reverse_path(_, _)
\* the path from the start to the node at index, following the parents
reverse_path(parents, index) ==
    IF index = 0 THEN <<>>
    ELSE Append(reverse_path(parents, parents[index].parent), parents[index].node)

RECURSIVE astar_loop(_, _, _, _, _)
astar_loop(g, goal, obstacles, to_see, parents) ==
    IF to_see = <<>> THEN None
    ELSE LET r    == heap_pop("SmallestCostHolder", to_see)
             node == parents[r.item.index].node
         IN  IF node = goal THEN reverse_path(parents, r.item.index)
             ELSE IF r.item.cost > parents[r.item.index].cost
             THEN astar_loop(g, goal, obstacles, r.data, parents)
             ELSE LET st == astar_relax(astar_successors(g, node, obstacles),
                                        r.item.cost, r.item.index, goal, r.data, parents)
                  IN  astar_loop(g, goal, obstacles, st.to_see, st.parents)

AStar_find_path(g, start, goal, obstacles) ==
    astar_loop(g, goal, obstacles,
               <<[estimated_cost |-> 0, cost |-> 0, index |-> 1]>>,
               <<[node |-> start, parent |-> 0, cost |-> 0]>>)

-----------------------------------------------------------------------------
(* d_star_lite_simple.rs: DStarLiteSimple *)

DStarLiteSimple_new ==
    [initialized |-> FALSE,
     s_start     |-> <<0, 0>>,
     s_goal      |-> <<0, 0>>,
     s_last      |-> <<0, 0>>,
     k_m         |-> 0]

\* the iteration budget of the main loop (line 173)
SimpleMaxIterations == 80000

\* HashMap::remove
MapRemove(map, pos) == [p \in (DOMAIN map) \ {pos} |-> map[p]]

\* lines 93-107: initialization, goal change, start change
simple_enter(self, start, goal) ==
    IF ~self.initialized \/ self.s_goal # goal
    THEN [initialized |-> TRUE, s_start |-> start, s_goal |-> goal,
          s_last |-> start, k_m |-> 0]
    ELSE IF self.s_start # start
    THEN [self EXCEPT !.k_m = saturating_add(@, Manhattan(self.s_last, start)),
                      !.s_start = start,
                      !.s_last = start]
    ELSE self

\* the closures get_g, get_rhs, cost and calculate_key (lines 120-152)
simple_get_g(cell_data, pos) ==
    IF pos \in DOMAIN cell_data THEN cell_data[pos].g ELSE Inf

simple_get_rhs(cell_data, pos, goal) ==
    IF pos = goal THEN 0
    ELSE IF pos \in DOMAIN cell_data THEN cell_data[pos].rhs ELSE Inf

\* the cost closure without the obstacle test
simple_cost_ignoring_obstacles(g, b, obstacles) ==
    IF b[1] >= g.size \/ b[2] >= g.size THEN Inf
    ELSE IF g.cells[b] = "Wall" THEN Inf
    ELSE 1

\* the cost closure (lines 132-140)
simple_cost(g, b, obstacles) ==
    IF b[1] >= g.size \/ b[2] >= g.size THEN Inf
    ELSE IF b \in obstacles \/ g.cells[b] = "Wall" THEN Inf
    ELSE 1

\* the calculate_key closure (lines 142-152)
simple_calculate_key(pos, g_val, rhs_val, k_m, start) ==
    LET min_val == Min2(g_val, rhs_val)
    IN  IF min_val = Inf THEN <<Inf, Inf>>
        ELSE <<saturating_add(saturating_add(min_val, Manhattan(pos, start)), k_m), min_val>>

\* cell_data.entry(pos).or_default(), one field replaced
SetCellG(cell_data, pos, v) ==
    MapInsert(cell_data, pos,
              [g |-> v, rhs |-> IF pos \in DOMAIN cell_data THEN cell_data[pos].rhs ELSE Inf])

SetCellRhs(cell_data, pos, v) ==
    MapInsert(cell_data, pos,
              [g |-> IF pos \in DOMAIN cell_data THEN cell_data[pos].g ELSE Inf, rhs |-> v])

\* the closure insert (lines 154-165); st holds the locals of find_path
simple_insert(st, pos, start, goal, k_m) ==
    LET key == simple_calculate_key(pos, simple_get_g(st.cell_data, pos),
                                    simple_get_rhs(st.cell_data, pos, goal), k_m, start)
        hash_code == st.hash_counter + 1
    IN  [st EXCEPT !.hash_counter = hash_code,
                   !.queue_hash = MapInsert(@, pos, hash_code),
                   !.open_queue = heap_push("QueueEntry", @,
                                            [key |-> key, pos |-> pos, hash_code |-> hash_code])]

RECURSIVE simple_min_rhs(_, _, _, _, _, _)
\* the inner loop over the successors of a vertex (lines 214-220, 244-250)
simple_min_rhs(cell_data, vertex, succs, g, obstacles, min_rhs) ==
    IF succs = <<>> THEN min_rhs
    ELSE LET succ      == Head(succs)
             edge_cost == simple_cost(g, succ, obstacles)
             g_succ    == simple_get_g(cell_data, succ)
             next      == IF edge_cost # Inf /\ g_succ # Inf
                          THEN Min2(min_rhs, saturating_add(edge_cost, g_succ))
                          ELSE min_rhs
         IN  simple_min_rhs(cell_data, vertex, Tail(succs), g, obstacles, next)

RECURSIVE simple_update(_, _, _, _, _, _, _)
\* the loops over the vertices to update (lines 210-231, 240-261)
simple_update(st, vertices, g, start, goal, obstacles, k_m) ==
    IF vertices = <<>> THEN st
    ELSE LET vertex == Head(vertices)
         IN  IF vertex = goal
             THEN simple_update(st, Tail(vertices), g, start, goal, obstacles, k_m)
             ELSE LET min_rhs == simple_min_rhs(st.cell_data, vertex, get_neighbors(g, vertex),
                                                g, obstacles, Inf)
                      s1 == [st EXCEPT !.cell_data = SetCellRhs(@, vertex, min_rhs),
                                       !.queue_hash = MapRemove(@, vertex)]
                      s2 == IF simple_get_g(s1.cell_data, vertex)
                                 # simple_get_rhs(s1.cell_data, vertex, goal)
                            THEN simple_insert(s1, vertex, start, goal, k_m)
                            ELSE s1
                  IN  simple_update(s2, Tail(vertices), g, start, goal, obstacles, k_m)

\* a pop that takes the top entry whatever hash code it carries
simple_pop_top(open_queue, queue_hash) ==
    IF open_queue = <<>>
    THEN [found |-> FALSE, open_queue |-> <<>>, queue_hash |-> queue_hash]
    ELSE LET r == heap_pop("QueueEntry", open_queue)
         IN  [found |-> TRUE, entry |-> r.item, open_queue |-> r.data,
              queue_hash |-> MapRemove(queue_hash, r.item.pos)]

RECURSIVE simple_pop_valid(_, _)
\* the lazy-deletion loop (lines 187-196): pops until an entry carries the
\* hash code recorded for its position; found is FALSE when the heap ran out
simple_pop_valid(open_queue, queue_hash) ==
    IF open_queue = <<>>
    THEN [found |-> FALSE, open_queue |-> <<>>, queue_hash |-> queue_hash]
    ELSE LET r == heap_pop("QueueEntry", open_queue)
         IN  IF r.item.pos \in DOMAIN queue_hash /\ queue_hash[r.item.pos] = r.item.hash_code
             THEN [found |-> TRUE, entry |-> r.item, open_queue |-> r.data,
                   queue_hash |-> MapRemove(queue_hash, r.item.pos)]
             ELSE simple_pop_valid(r.data, queue_hash)

\* the termination test of the main loop (lines 175-184)
simple_terminate(st, start, goal, k_m) ==
    LET start_g   == simple_get_g(st.cell_data, start)
        start_rhs == simple_get_rhs(st.cell_data, start, goal)
        start_key == simple_calculate_key(start, start_g, start_rhs, k_m, start)
    IN  /\ ~KeyLt(st.open_queue[1].key, start_key)
        /\ start_rhs = start_g
        /\ start_g # Inf

\* the body of the main loop after a valid entry u was popped (lines 198-262)
simple_process(st, u, g, start, goal, obstacles, k_m) ==
    LET u_g       == simple_get_g(st.cell_data, u.pos)
        u_rhs     == simple_get_rhs(st.cell_data, u.pos, goal)
        u_key_new == simple_calculate_key(u.pos, u_g, u_rhs, k_m, start)
    IN  IF KeyLt(u.key, u_key_new)
        THEN simple_insert(st, u.pos, start, goal, k_m)
        ELSE IF u_g > u_rhs
        THEN simple_update([st EXCEPT !.cell_data = SetCellG(@, u.pos, u_rhs)],
                           get_neighbors(g, u.pos), g, start, goal, obstacles, k_m)
        ELSE simple_update([st EXCEPT !.cell_data = SetCellG(@, u.pos, Inf)],
                           Append(get_neighbors(g, u.pos), u.pos),
                           g, start, goal, obstacles, k_m)

RECURSIVE simple_loop(_, _, _, _, _, _)
\* the main computation loop (lines 173-265); returns the locals at its end
simple_loop(st, g, start, goal, obstacles, k_m) ==
    IF st.open_queue = <<>> \/ st.iterations >= SimpleMaxIterations THEN st
    ELSE IF simple_terminate(st, start, goal, k_m) THEN st
    ELSE LET r == simple_pop_valid(st.open_queue, st.queue_hash)
         IN  IF ~r.found
             THEN [st EXCEPT !.open_queue = r.open_queue, !.queue_hash = r.queue_hash]
             ELSE LET s1 == [st EXCEPT !.open_queue = r.open_queue,
                                       !.queue_hash = r.queue_hash]
                      s2 == simple_process(s1, r.entry, g, start, goal, obstacles, k_m)
                  IN  simple_loop([s2 EXCEPT !.iterations = @ + 1],
                                  g, start, goal, obstacles, k_m)

\* locals that are not rebuilt from nothing: once the start has moved, the
\* start keeps scores of an earlier search
simple_init_keeping_scores(start, goal, k_m) ==
    simple_insert([open_queue   |-> <<>>,
                   cell_data    |-> (goal :> [g |-> Inf, rhs |-> 0])
                                      @@ (IF k_m > 0 THEN start :> [g |-> k_m, rhs |-> k_m]
                                          ELSE << >>),
                   queue_hash   |-> << >>,
                   hash_counter |-> 0,
                   iterations   |-> 0],
                  goal, start, goal, k_m)

\* the locals of find_path once the goal is initialised (lines 110-169)
simple_init(start, goal, k_m) ==
    simple_insert([open_queue   |-> <<>>,
                   cell_data    |-> (goal :> [g |-> Inf, rhs |-> 0]),
                   queue_hash   |-> << >>,
                   hash_counter |-> 0,
                   iterations   |-> 0],
                  goal, start, goal, k_m)

\* the min_by_key key of the path extraction (lines 281-289)
simple_extract_key(cell_data, neighbor, g, obstacles) ==
    LET edge_cost  == simple_cost(g, neighbor, obstacles)
        g_neighbor == simple_get_g(cell_data, neighbor)
    IN  IF edge_cost = Inf \/ g_neighbor = Inf THEN Inf
        ELSE saturating_add(edge_cost, g_neighbor)

RECURSIVE simple_extract(_, _, _, _, _, _)
\* the path extraction loop (lines 275-301)
simple_extract(cell_data, g, goal, obstacles, path, current) ==
    IF current = goal THEN path
    ELSE LET cand == SelectSeq(get_neighbors(g, current),
                               LAMBDA neighbor : simple_cost(g, neighbor, obstacles) # Inf)
             i    == MinByKeyIndex(cand,
                        LAMBDA neighbor : simple_extract_key(cell_data, neighbor, g, obstacles))
         IN  IF i = 0 THEN None
             ELSE IF Len(path) + 1 > g.size * g.size THEN None
             ELSE simple_extract(cell_data, g, goal, obstacles, Append(path, cand[i]), cand[i])

\* DStarLiteSimple::find_path: [self, result]
DStarLiteSimple_find_path(self, g, start, goal, obstacles) ==
    LET s1 == simple_enter(self, start, goal)
        st == simple_loop(simple_init(start, goal, s1.k_m), g, start, goal, obstacles, s1.k_m)
    IN  [self   |-> s1,
         result |-> IF simple_get_g(st.cell_data, start) = Inf THEN None
                    ELSE simple_extract(st.cell_data, g, goal, obstacles, <<start>>, start)]

-----------------------------------------------------------------------------
(* hybrid_a_star_d_star.rs: HybridAStarDStar *)

HybridAStarDStar_new(start, goal) ==
    [d_star_lite_simple |-> DStarLiteSimple_new,
     initial_path_found |-> FALSE,
     last_start         |-> start,
     last_goal          |-> goal,
     last_obstacles     |-> {},
     a_star_usage_count |-> 0,
     d_star_usage_count |-> 0]

\* should_use_astar with the start threshold at 4
should_use_astar_start_threshold_4(self, start, goal, obstacles) ==
    IF ~self.initial_path_found \/ self.last_goal # goal THEN TRUE
    ELSE IF Manhattan(start, self.last_start) > 4 THEN TRUE
    ELSE /\ obstacles # self.last_obstacles
         /\ Abs(Cardinality(obstacles) - Cardinality(self.last_obstacles)) > 5

\* should_use_astar with the obstacle-count threshold at 6
should_use_astar_count_threshold_6(self, start, goal, obstacles) ==
    IF ~self.initial_path_found \/ self.last_goal # goal THEN TRUE
    ELSE IF Manhattan(start, self.last_start) > 3 THEN TRUE
    ELSE /\ obstacles # self.last_obstacles
         /\ Abs(Cardinality(obstacles) - Cardinality(self.last_obstacles)) > 6

\* first run, goal change, start jump of more than 3, obstacle count change
\* of more than 5
should_use_astar(self, start, goal, obstacles) ==
    IF ~self.initial_path_found \/ self.last_goal # goal THEN TRUE
    ELSE IF Manhattan(start, self.last_start) > 3 THEN TRUE
    ELSE /\ obstacles # self.last_obstacles
         /\ Abs(Cardinality(obstacles) - Cardinality(self.last_obstacles)) > 5

\* find_path, A* branch (lines 111-121): the tracking fields are updated only
\* when A* found a path
hybrid_astar_branch(self, path, start, goal, obstacles) ==
    IF path # None
    THEN [self   |-> [self EXCEPT !.last_start = start,
                                  !.last_goal = goal,
                                  !.last_obstacles = obstacles,
                                  !.initial_path_found = TRUE],
          result |-> path,
          branch |-> "a_star"]
    ELSE [self |-> self, result |-> None, branch |-> "a_star"]

\* the D* Lite Simple branch whose fallback asks A* without the obstacles
hybrid_simple_branch_fallback_without_obstacles(self, r, g, start, goal, obstacles) ==
    IF r.result # None
    THEN [self   |-> [self EXCEPT !.d_star_lite_simple = r.self],
          result |-> r.result,
          branch |-> "d_star_lite_simple"]
    ELSE [self   |-> [self EXCEPT !.d_star_lite_simple = r.self,
                                  !.a_star_usage_count = @ + 1],
          result |-> AStar_find_path(g, start, goal, {}),
          branch |-> "fallback"]

\* find_path, D* Lite Simple branch (lines 127-140): r is what
\* d_star_lite_simple.find_path gave; on none, A* is counted and consulted
hybrid_simple_branch(self, r, g, start, goal, obstacles) ==
    IF r.result # None
    THEN [self   |-> [self EXCEPT !.d_star_lite_simple = r.self],
          result |-> r.result,
          branch |-> "d_star_lite_simple"]
    ELSE [self   |-> [self EXCEPT !.d_star_lite_simple = r.self,
                                  !.a_star_usage_count = @ + 1],
          result |-> AStar_find_path(g, start, goal, obstacles),
          branch |-> "fallback"]

\* find_path that does not count the D* Lite Simple calls
HybridAStarDStar_find_path_uncounted(self, g, start, goal, obstacles) ==
    IF should_use_astar(self, start, goal, obstacles)
    THEN hybrid_astar_branch([self EXCEPT !.a_star_usage_count = @ + 1],
                             AStar_find_path(g, start, goal, obstacles),
                             start, goal, obstacles)
    ELSE hybrid_simple_branch([self EXCEPT !.last_start = start,
                                           !.last_obstacles = obstacles],
                              DStarLiteSimple_find_path(self.d_star_lite_simple, g,
                                                        start, goal, obstacles),
                              g, start, goal, obstacles)

\* HybridAStarDStar::find_path: [self, result, branch]
HybridAStarDStar_find_path(self, g, start, goal, obstacles) ==
    IF should_use_astar(self, start, goal, obstacles)
    THEN hybrid_astar_branch([self EXCEPT !.a_star_usage_count = @ + 1],
                             AStar_find_path(g, start, goal, obstacles),
                             start, goal, obstacles)
    ELSE hybrid_simple_branch([self EXCEPT !.d_star_usage_count = @ + 1,
                                           !.last_start = start,
                                           !.last_obstacles = obstacles],
                              DStarLiteSimple_find_path(self.d_star_lite_simple, g,
                                                        start, goal, obstacles),
                              g, start, goal, obstacles)

\* get_usage_stats
get_usage_stats(self) == <<self.a_star_usage_count, self.d_star_usage_count>>

-----------------------------------------------------------------------------
(* agent.rs: Agent *)

Agent_new(start) ==
    [position |-> start, known_obstacles |-> {}, current_path |-> None, path_index |-> 0]

\* Agent::observe: the Obstacle cells among get_neighbors are added
observe(self, g) ==
    [self EXCEPT !.known_obstacles =
        @ \cup {n \in SeqToSet(get_neighbors(g, self.position)) : g.cells[n] = "Obstacle"}]

\* set_path that puts the agent on the second cell of the path
set_path_on_second_cell(self, path) ==
    [self EXCEPT !.current_path = path,
                 !.path_index = 0,
                 !.position = IF Len(path) > 1 THEN path[2] ELSE @]

\* Agent::set_path (find_path never returns an empty vector)
set_path(self, path) ==
    [self EXCEPT !.current_path = path,
                 !.path_index = 0,
                 !.position = IF path # <<>> THEN path[1] ELSE @]

\* Option<Position>::None of get_next_step
NoStep == <<>>

\* get_next_step that gives up one cell before the end of the path
get_next_step_one_short(self) ==
    IF self.current_path # None /\ self.path_index + 2 < Len(self.current_path)
    THEN self.current_path[self.path_index + 1]
    ELSE NoStep

\* Agent::get_next_step: path[path_index + 1], indices from 0
get_next_step(self) ==
    IF self.current_path # None /\ self.path_index + 1 < Len(self.current_path)
    THEN self.current_path[self.path_index + 2]
    ELSE NoStep

\* move_to that leaves path_index alone
move_to_keeping_index(self, position) == [self EXCEPT !.position = position]

move_to(self, position) == [self EXCEPT !.position = position, !.path_index = @ + 1]

\* the test both path checks apply to a cell
cell_is_blocked(self, g, pos) ==
    g.cells[pos] = "Obstacle" \/ g.cells[pos] = "Wall" \/ pos \in self.known_obstacles

is_path_blocked(self, g) ==
    IF get_next_step(self) # NoStep THEN cell_is_blocked(self, g, get_next_step(self)) ELSE FALSE

\* a subtraction that takes b twice
saturating_sub_twice(a, b) == IF a >= 2 * b THEN a - 2 * b ELSE 0

\* a subtraction that takes nothing
saturating_sub_nothing(a, b) == a

saturating_sub(a, b) == IF a >= b THEN a - b ELSE 0

\* Agent::path_needs_recalculation: the next min(3, cells left) cells of the path
path_needs_recalculation(self, g) ==
    IF self.current_path # None
    THEN LET path == self.current_path
             check_ahead == Min2(3, saturating_sub(Len(path), self.path_index + 1))
         IN  \E i \in 1..check_ahead :
                /\ self.path_index + i < Len(path)
                /\ cell_is_blocked(self, g, path[self.path_index + i + 1])
    ELSE TRUE

is_at_goal(self, goal) == self.position = goal

clear_path(self) == [self EXCEPT !.current_path = None, !.path_index = 0]

-----------------------------------------------------------------------------
(* simulation.rs: Simulation *)

MAX_STUCK_ATTEMPTS == 5

\* the Box<dyn PathfindingAlgorithm> of the simulation: AStar has no fields
Algorithm_new(name, start, goal) ==
    IF name = "a_star" THEN [name |-> name]
    ELSE IF name = "d_star_lite" THEN [name |-> name, d_star_lite |-> DStarLite_new(start, goal)]
    ELSE [name |-> name, hybrid |-> HybridAStarDStar_new(start, goal)]

boxed_hybrid_result(alg, r) == [self |-> [alg EXCEPT !.hybrid = r.self], result |-> r.result]

boxed_d_star_lite_result(alg, r) ==
    [self |-> [alg EXCEPT !.d_star_lite = r.self], result |-> r.result]

\* self.algorithm.find_path: [self, result]; order is the iteration order of
\* the HashSets of the call
algorithm_find_path(alg, g, start, goal, obstacles, order) ==
    IF alg.name = "a_star"
    THEN [self |-> alg, result |-> AStar_find_path(g, start, goal, obstacles)]
    ELSE IF alg.name = "d_star_lite"
    THEN boxed_d_star_lite_result(alg, DStarLite_find_path(alg.d_star_lite, g, start, goal, obstacles, order))
    ELSE boxed_hybrid_result(alg, HybridAStarDStar_find_path(alg.hybrid, g, start, goal, obstacles))

\* self.algorithm.get_usage_stats: the trait's default is (0, 0)
algorithm_get_usage_stats(alg) ==
    IF alg.name = "hybrid" THEN get_usage_stats(alg.hybrid) ELSE <<0, 0>>

\* the cells of the path A* found, or 0
moves_of_path_counting_cells(path) ==
    IF path # None THEN Len(path) ELSE 0

\* lines 559-563: the moves of the path A* found, or 0
moves_of_path(path) ==
    IF path # None THEN saturating_sub(Len(path), 1) ELSE 0

\* calculate_optimal_path_with_astar: usize
calculate_optimal_path_with_astar(g) ==
    moves_of_path(AStar_find_path(g, g.start, g.goal, {}))

\* lines 196-213: Err when optimal_path_length is 0 (pc "error": no run is
\* made of it), Ok otherwise
construction_result(self) ==
    IF self.optimal_path_length = 0 THEN [self EXCEPT !.pc = "error"] ELSE self

\* Simulation::new_with_environment, with the locals of run
Simulation_new(name, g, environment) ==
  construction_result(
    [agent                      |-> Agent_new(g.start),
     algorithm                  |-> Algorithm_new(name, g.start, g.goal),
     optimal_path_length        |-> calculate_optimal_path_with_astar(g),
     environment                |-> environment,
     active_obstacle_groups     |-> <<>>,
     cycles_since_last_obstacle |-> 0,
     current_obstacle_cycle     |-> 0,
     total_iterations           |-> 0,
     stuck_attempts             |-> 0,
     total_moves                |-> 0,
     obstacles_changed          |-> FALSE,
     needs_recalc               |-> FALSE,
     pc                         |-> "start",
     exit                       |-> "none"])

\* is_valid_obstacle_position without the test of the agent's cell
is_valid_obstacle_position_ignoring_agent(self, g, pos) ==
    /\ pos # g.start /\ pos # g.goal
    /\ g.cells[pos] = "Empty"

\* is_valid_obstacle_position that also refuses a cell within two steps of
\* an Obstacle cell
is_valid_obstacle_position_apart(self, g, pos) ==
    /\ pos # g.start /\ pos # g.goal /\ pos # self.agent.position
    /\ g.cells[pos] = "Empty"
    /\ \A q \in DOMAIN g.cells : g.cells[q] = "Obstacle" => Manhattan(pos, q) > 2

is_valid_obstacle_position(self, g, pos) ==
    /\ pos # g.start /\ pos # g.goal /\ pos # self.agent.position
    /\ g.cells[pos] = "Empty"

SetCells(g, positions, cell) ==
    [g EXCEPT !.cells = [p \in DOMAIN @ |-> IF p \in positions THEN cell ELSE @[p]]]

RECURSIVE place_in_order(_, _, _, _)
\* the for loop of place_obstacle_group_from_timeline (lines 510-516) over
\* the positions as the HashSet yields them: [grid, positions]
place_in_order(self, g, rest, positions) ==
    IF rest = <<>> THEN [grid |-> g, positions |-> positions]
    ELSE IF is_valid_obstacle_position(self, g, Head(rest))
    THEN place_in_order(self, SetCells(g, {Head(rest)}, "Obstacle"), Tail(rest),
                        positions \cup {Head(rest)})
    ELSE place_in_order(self, g, Tail(rest), positions)

\* lines 504-507 and 518-523: the new group is pushed unless it is empty
push_obstacle_group(self, r) ==
    [self   |-> IF r.positions # {}
                THEN [self EXCEPT !.active_obstacle_groups =
                         Append(@, [positions        |-> r.positions,
                                    cycles_remaining |->
                                        self.environment.obstacle_persistence_cycles])]
                ELSE self,
     grid   |-> r.grid,
     placed |-> r.positions # {}]

\* place_obstacle_group_from_timeline that always takes the first entry
place_obstacle_group_from_timeline_repeating(self, g, order) ==
    push_obstacle_group(self,
        place_in_order(self, g, Iteration(self.environment.obstacle_timeline[1], order), {}))

\* place_obstacle_group_from_timeline: [self, grid, placed]
place_obstacle_group_from_timeline(self, g, order) ==
    push_obstacle_group(self,
        place_in_order(self, g,
            Iteration(self.environment.obstacle_timeline[self.current_obstacle_cycle + 1], order),
            {}))

\* update_obstacles_from_timeline: [self, grid, obstacles_changed]
update_obstacles_from_timeline(self, g, order) ==
    LET groups == [i \in 1..Len(self.active_obstacle_groups) |->
                     [self.active_obstacle_groups[i] EXCEPT
                         !.cycles_remaining = saturating_sub(@, 1)]]
        expired_groups == {i \in 1..Len(groups) : groups[i].cycles_remaining = 0}
        g1 == SetCells(g, UNION {groups[i].positions : i \in expired_groups}, "Empty")
        s1 == [self EXCEPT
                 !.cycles_since_last_obstacle = @ + 1,
                 !.active_obstacle_groups =
                     SelectSeq(groups, LAMBDA group : group.cycles_remaining # 0)]
        r  == place_obstacle_group_from_timeline(s1, g1, order)
    IN  IF s1.cycles_since_last_obstacle >= s1.environment.obstacle_cycle_interval
        THEN IF s1.current_obstacle_cycle < Len(s1.environment.obstacle_timeline)
             THEN [self |-> [r.self EXCEPT !.current_obstacle_cycle = @ + 1,
                                           !.cycles_since_last_obstacle = 0],
                   grid |-> r.grid,
                   obstacles_changed |-> r.placed \/ expired_groups # {}]
             ELSE [self |-> [s1 EXCEPT !.cycles_since_last_obstacle = 0],
                   grid |-> g1,
                   obstacles_changed |-> expired_groups # {}]
        ELSE [self |-> s1, grid |-> g1, obstacles_changed |-> expired_groups # {}]

\* clear_all_obstacles that forgets the groups and leaves their cells
clear_all_obstacles_keeping_cells(self, g) ==
    [self |-> [self EXCEPT !.active_obstacle_groups = <<>>], grid |-> g]

\* clear_all_obstacles: [self, grid]
clear_all_obstacles(self, g) ==
    [self |-> [self EXCEPT !.active_obstacle_groups = <<>>],
     grid |-> SetCells(g, UNION {self.active_obstacle_groups[i].positions :
                                   i \in 1..Len(self.active_obstacle_groups)}, "Empty")]

\* run: max_iterations
sim_max_iterations(g) == g.size * g.size * 4

-----------------------------------------------------------------------------
(* Inputs of the D* Lite runs *)

\* 4x4 grids as Grid::new makes them (start in the low quadrant, goal in the
\* high one, walls elsewhere): an open one, and one whose walls leave a dead
\* end at (0,2)
DGrids ==
    { MakeGrid(4, {}, <<0, 0>>, <<3, 3>>),
      MakeGrid(4, {<<0, 3>>, <<1, 1>>, <<1, 2>>}, <<0, 1>>, <<2, 2>>) }

\* the agent positions find_path is called with
StartCells(g) == {g.start, <<0, 2>>, <<2, 1>>}

\* the cells that can hold a known obstacle
ObstacleCells(g) == {<<0, 2>>, <<2, 1>>}

\* known_obstacles never holds the agent's own cell nor the goal
ObstacleSets(g, start, goal) ==
    {O \in SUBSET (ObstacleCells(g) \ {start, goal}) : Cardinality(O) <= MaxObstacles}

NoCall(g) == [start |-> g.start, goal |-> g.goal, obstacles |-> {}]

\* no simulation is set up in the runs of the engines alone
NoSim == [pc |-> "none"]
NoSeen == [tick |-> 0]
NoBatch == [pc |-> "none"]
NoSimple == [pc |-> "none"]

\* the observer's record before any call: the dispatcher as it was when the
\* last call began, whether a path had been returned before that call, and
\* how often each engine has been run (directly or as fallback)
NoObs(g) ==
    [before        |-> HybridAStarDStar_new(g.start, g.goal),
     path_returned |-> FALSE,
     a_star_runs   |-> 0,
     d_star_runs   |-> 0,
     fallbacks     |-> 0]

-----------------------------------------------------------------------------
(* DStarLite::find_path, one action per procedure call it makes *)

DInit ==
    /\ grid \in DGrids
    /\ dsl = DStarLite_new(grid.start, grid.goal)
    /\ pc = "idle"
    /\ call = NoCall(grid)
    /\ pending = {}
    /\ todo = <<>>
    /\ iterations = 0
    /\ csp_exit = "none"
    /\ result = None
    /\ prev = [call |-> NoCall(grid), result |-> None]
    /\ calls = 0
    /\ after = "new"
    /\ hybrid = HybridAStarDStar_new(grid.start, grid.goal)
    /\ branch = "none"
    /\ obs = NoObs(grid)
    /\ sim = NoSim
    /\ seen = NoSeen
    /\ batch = NoBatch
    /\ simple = NoSimple

\* find_path is entered: goal and start changes (lines 396-420)
FindPath(start, goal, obstacles) ==
    /\ pc = "idle"
    /\ calls < MaxCalls
    /\ call' = [start |-> start, goal |-> goal, obstacles |-> obstacles]
    /\ prev' = [call |-> call, result |-> result]
    /\ dsl' = enter_find_path(dsl, grid, start, goal, obstacles)
    /\ after' = IF dsl.goal = goal /\ dsl.start # start /\ dsl.initial_computation_done
                THEN "update_vertex" ELSE "enter"
    /\ pc' = "initialize"
    /\ UNCHANGED <<grid, pending, todo, iterations, csp_exit, result, calls, hybrid, branch, obs, sim, seen, batch, simple>>

\* self.initialize(), then the obstacle check (lines 423-431)
Initialize ==
    /\ pc = "initialize"
    /\ dsl' = initialize(dsl)
    /\ after' = "initialize"
    /\ IF check_obstacles_changed(call.obstacles)
       THEN /\ pending' = positions_to_update(dsl', grid, call.obstacles)
            /\ pc' = "update"
       ELSE /\ pending' = {}
            /\ pc' = "compute"
    /\ iterations' = 0
    /\ UNCHANGED <<grid, call, todo, csp_exit, result, prev, calls, hybrid, branch, obs, sim, seen, batch, simple>>

\* one update_vertex of update_changed_obstacles; the HashSet is iterated in
\* an unspecified order
UpdateChangedObstacle ==
    /\ pc = "update"
    /\ \E pos \in pending :
          /\ dsl' = update_vertex(dsl, pos, grid, call.obstacles)
          /\ pending' = pending \ {pos}
    /\ after' = "update_vertex"
    /\ pc' = IF pending' = {} THEN "compute" ELSE "update"
    /\ UNCHANGED <<grid, call, todo, iterations, csp_exit, result, prev, calls, hybrid, branch, obs, sim, seen, batch, simple>>

\* the loop of compute_shortest_path is left (lines 166, 189-192)
ComputeReturn ==
    /\ pc = "compute"
    /\ \/ /\ dsl.queue = {}
          /\ csp_exit' = "empty"
       \/ /\ dsl.queue # {}
          /\ iterations >= max_iterations(grid)
          /\ csp_exit' = "cap"
       \/ /\ dsl.queue # {}
          /\ iterations < max_iterations(grid)
          /\ ~should_continue(dsl)
          /\ csp_exit' = "break"
    /\ after' = "compute_shortest_path"
    /\ pc' = "extract"
    /\ UNCHANGED <<grid, dsl, call, pending, todo, iterations, result, prev, calls, hybrid, branch, obs, sim, seen, batch, simple>>

\* one iteration of the loop up to its first update_vertex (lines 194-228)
ComputePop ==
    /\ pc = "compute"
    /\ dsl.queue # {}
    /\ iterations < max_iterations(grid)
    /\ should_continue(dsl)
    /\ LET r == pop_and_set_g(dsl, grid)
       IN  /\ dsl' = r.self
           /\ todo' = r.todo
           /\ IF r.todo = <<>>
              THEN /\ iterations' = iterations + 1
                   /\ pc' = "compute"
                   /\ after' = "reinsert"
              ELSE /\ iterations' = iterations
                   /\ pc' = "expand"
                   /\ after' = "set_g"
    /\ UNCHANGED <<grid, call, pending, csp_exit, result, prev, calls, hybrid, branch, obs, sim, seen, batch, simple>>

\* the next update_vertex of the iteration
ComputeUpdateVertex ==
    /\ pc = "expand"
    /\ dsl' = update_vertex(dsl, Head(todo), grid, call.obstacles)
    /\ todo' = Tail(todo)
    /\ after' = "update_vertex"
    /\ IF todo' = <<>>
       THEN /\ iterations' = iterations + 1
            /\ pc' = "compute"
       ELSE /\ iterations' = iterations
            /\ pc' = "expand"
    /\ UNCHANGED <<grid, call, pending, csp_exit, result, prev, calls, hybrid, branch, obs, sim, seen, batch, simple>>

\* extract_path, and find_path returns (lines 437-439)
ExtractPath ==
    /\ pc = "extract"
    /\ result' = extract_path(dsl, grid, call.obstacles)
    /\ calls' = calls + 1
    /\ after' = "extract_path"
    /\ pc' = "idle"
    /\ UNCHANGED <<grid, dsl, call, pending, todo, iterations, csp_exit, prev, hybrid, branch, obs, sim, seen, batch, simple>>

DNext ==
    \/ \E start \in StartCells(grid) :
         \E obstacles \in ObstacleSets(grid, start, grid.goal) :
            FindPath(start, grid.goal, obstacles)
    \/ Initialize
    \/ UpdateChangedObstacle
    \/ ComputeReturn
    \/ ComputePop
    \/ ComputeUpdateVertex
    \/ ExtractPath

SpecD == DInit /\ [][DNext]_vars

-----------------------------------------------------------------------------
(* DStarLite::find_path called with goals that change *)

\* the goals find_path is called with: the goal of the grid and another free
\* cell, which is neither a start nor an obstacle cell of the calls
GoalCells(g) == {g.goal, <<3, 0>>}

GNext ==
    \/ \E start \in StartCells(grid) : \E goal \in GoalCells(grid) :
         \E obstacles \in ObstacleSets(grid, start, goal) :
            FindPath(start, goal, obstacles)
    \/ Initialize
    \/ UpdateChangedObstacle
    \/ ComputeReturn
    \/ ComputePop
    \/ ComputeUpdateVertex
    \/ ExtractPath

SpecG == DInit /\ [][GNext]_vars

-----------------------------------------------------------------------------
(* DStarLite::find_path called with obstacles that cut the goal off *)

\* the agent positions of the calls
UStartCells(g) == {g.start, <<0, 2>>}

\* the cells that can hold a known obstacle: (0,0) closes the way out of
\* (0,1) and (0,2) on the grid with walls, (2,3) and (3,2) together enclose
\* the goal of the grid without walls
UObstacleSets(g, start, goal) ==
    {O \in SUBSET ({<<0, 0>>, <<2, 3>>, <<3, 2>>} \ {start, goal}) :
        Cardinality(O) <= MaxObstacles + 1}

UNext ==
    \/ /\ calls < MaxHistory
       /\ \E start \in UStartCells(grid) :
            \E obstacles \in UObstacleSets(grid, start, grid.goal) :
               FindPath(start, grid.goal, obstacles)
    \/ Initialize
    \/ UpdateChangedObstacle
    \/ ComputeReturn
    \/ ComputePop
    \/ ComputeUpdateVertex
    \/ ExtractPath

\* find_path is sequential code: a call that has been entered takes its next
\* step; when the next call comes is up to the caller.  UpdateChangedObstacle
\* and ExtractPath can be taken exactly when pc is "update" and "extract", so
\* their weak fairness is that pc does not keep that value for ever without
\* such a step being taken.
SpecULive ==
    /\ DInit /\ [][UNext]_vars
    /\ WF_vars(Initialize) /\ WF_vars(ComputeReturn)
    /\ WF_vars(ComputePop) /\ WF_vars(ComputeUpdateVertex)
    /\ ([]<>(pc # "update") \/ []<><<pc = "update" /\ pending' # pending>>_vars)
    /\ []<>(pc # "extract")

-----------------------------------------------------------------------------
(* DStarLiteSimple::find_path, one action per iteration of its main loop *)

\* the variables of the other engines
simple_other_vars ==
    <<dsl, pc, call, pending, todo, iterations, csp_exit, result, prev, calls, after,
      hybrid, branch, obs, sim, seen, batch>>

\* the last hash code given to an entry of each position, as an observer of
\* the pushes sees it: the entries of the heap that are newer than counter
NewestCodes(latest, open_queue, counter) ==
    LET new == {i \in 1..Len(open_queue) : open_queue[i].hash_code > counter}
        at(pos) == {open_queue[i].hash_code : i \in {j \in new : open_queue[j].pos = pos}}
    IN  [pos \in (DOMAIN latest) \cup {open_queue[i].pos : i \in new} |->
            IF at(pos) # {} THEN CHOOSE c \in at(pos) : \A d \in at(pos) : d <= c
            ELSE latest[pos]]

SInit ==
    /\ grid \in DGrids
    /\ simple = [self     |-> DStarLiteSimple_new,
                 args     |-> NoCall(grid),
                 st       |-> None,
                 previous |-> None,
                 latest   |-> << >>,
                 result   |-> None,
                 calls    |-> 0,
                 pc       |-> "idle"]
    /\ dsl = DStarLite_new(grid.start, grid.goal)
    /\ pc = "idle"
    /\ call = NoCall(grid)
    /\ pending = {}
    /\ todo = <<>>
    /\ iterations = 0
    /\ csp_exit = "none"
    /\ result = None
    /\ prev = [call |-> NoCall(grid), result |-> None]
    /\ calls = 0
    /\ after = "new"
    /\ hybrid = HybridAStarDStar_new(grid.start, grid.goal)
    /\ branch = "none"
    /\ obs = NoObs(grid)
    /\ sim = NoSim
    /\ seen = NoSeen
    /\ batch = NoBatch

\* lines 93-169: find_path is entered and the goal is pushed
SimpleFindPath(start, goal, obstacles) ==
    /\ simple.pc = "idle"
    /\ simple.calls < MaxCalls
    /\ LET self == simple_enter(simple.self, start, goal)
           st   == simple_init(start, goal, self.k_m)
       IN  simple' = [simple EXCEPT
                        !.self     = self,
                        !.args     = [start |-> start, goal |-> goal, obstacles |-> obstacles],
                        !.st       = st,
                        !.previous = None,
                        !.latest   = NewestCodes(<< >>, st.open_queue, 0),
                        !.pc       = "loop"]
    /\ UNCHANGED <<grid, simple_other_vars>>

\* lines 173-184: the condition of the main loop and the termination test
simple_loop_ends(st, start, goal, k_m) ==
    IF st.open_queue = <<>> \/ st.iterations >= SimpleMaxIterations THEN TRUE
    ELSE simple_terminate(st, start, goal, k_m)

\* the main loop is left at its head
SimpleLoopEnds ==
    /\ simple.pc = "loop"
    /\ simple_loop_ends(simple.st, simple.args.start, simple.args.goal, simple.self.k_m)
    /\ simple' = [simple EXCEPT !.pc = "extract"]
    /\ UNCHANGED <<grid, simple_other_vars>>

\* lines 186-264: one iteration, the lazy deletion and the processing of u,
\* or the break out of the main loop when the heap runs out
simple_iteration(st, g, start, goal, obstacles, k_m) ==
    LET r  == simple_pop_valid(st.open_queue, st.queue_hash)
        s1 == [st EXCEPT !.open_queue = r.open_queue, !.queue_hash = r.queue_hash]
    IN  IF ~r.found THEN s1
        ELSE [simple_process(s1, r.entry, g, start, goal, obstacles, k_m)
                 EXCEPT !.iterations = @ + 1]

SimpleIterate ==
    /\ simple.pc = "loop"
    /\ ~simple_loop_ends(simple.st, simple.args.start, simple.args.goal, simple.self.k_m)
    /\ \E st \in {simple_iteration(simple.st, grid, simple.args.start, simple.args.goal,
                                    simple.args.obstacles, simple.self.k_m)} :
          simple' = [simple EXCEPT
                       !.st       = st,
                       !.previous = simple.st,
                       !.latest   = NewestCodes(@, st.open_queue, simple.st.hash_counter),
                       !.pc       = IF st.iterations = simple.st.iterations
                                    THEN "extract" ELSE "loop"]
    /\ UNCHANGED <<grid, simple_other_vars>>

\* lines 267-304: the path is extracted and find_path returns
simple_result(st, g, start, goal, obstacles) ==
    IF simple_get_g(st.cell_data, start) = Inf THEN None
    ELSE simple_extract(st.cell_data, g, goal, obstacles, <<start>>, start)

SimpleExtract ==
    /\ simple.pc = "extract"
    /\ simple' = [simple EXCEPT
                    !.result = simple_result(simple.st, grid, simple.args.start,
                                             simple.args.goal, simple.args.obstacles),
                    !.calls  = @ + 1,
                    !.pc     = "idle"]
    /\ UNCHANGED <<grid, simple_other_vars>>

SNext ==
    \/ \E start \in StartCells(grid) : \E goal \in GoalCells(grid) :
         \E obstacles \in ObstacleSets(grid, start, goal) :
            SimpleFindPath(start, goal, obstacles)
    \/ SimpleLoopEnds
    \/ SimpleIterate
    \/ SimpleExtract

SpecS == SInit /\ [][SNext]_vars

-----------------------------------------------------------------------------
(* Inputs of the hybrid runs *)

\* a 4x4 grid whose wall leaves the goal one free neighbour, (3,1), and a
\* pocket at (3,3)
HGrids == { MakeGrid(4, {<<2, 2>>, <<2, 3>>}, <<0, 0>>, <<3, 2>>) }

HStartCells(g) == {<<0, 0>>, <<0, 2>>, <<3, 1>>}

HGoalCells(g) == {g.goal, <<3, 3>>}

HObstacleCells(g) == {<<3, 1>>, <<1, 2>>}

\* two six-cell obstacle sets that share no cell with each other
HLargeObstacleSets(g) ==
    { {<<0, 1>>, <<1, 0>>, <<2, 0>>, <<3, 0>>, <<0, 3>>, <<1, 3>>},
      {<<1, 1>>, <<1, 2>>, <<2, 1>>, <<0, 1>>, <<0, 3>>, <<1, 3>>} }

HObstacleSets(g, start, goal) ==
    {O \in SUBSET (HObstacleCells(g) \ {start, goal}) : Cardinality(O) <= MaxObstacles}
      \cup {O \in HLargeObstacleSets(g) : start \notin O /\ goal \notin O}

-----------------------------------------------------------------------------
(* HybridAStarDStar::find_path, one action per call *)

HInit ==
    /\ grid \in HGrids
    /\ hybrid = HybridAStarDStar_new(grid.start, grid.goal)
    /\ branch = "none"
    /\ obs = NoObs(grid)
    /\ sim = NoSim
    /\ seen = NoSeen
    /\ batch = NoBatch
    /\ simple = NoSimple
    /\ dsl = DStarLite_new(grid.start, grid.goal)
    /\ pc = "idle"
    /\ call = NoCall(grid)
    /\ pending = {}
    /\ todo = <<>>
    /\ iterations = 0
    /\ csp_exit = "none"
    /\ result = None
    /\ prev = [call |-> NoCall(grid), result |-> None]
    /\ calls = 0
    /\ after = "new"

HybridFindPath(start, goal, obstacles) ==
    /\ calls < MaxCalls
    /\ LET r == HybridAStarDStar_find_path(hybrid, grid, start, goal, obstacles)
       IN  /\ hybrid' = r.self
           /\ result' = r.result
           /\ branch' = r.branch
           /\ obs' = [before        |-> hybrid,
                      path_returned |-> obs.path_returned \/ (calls > 0 /\ result # None),
                      a_star_runs   |-> obs.a_star_runs
                                          + (IF r.branch \in {"a_star", "fallback"} THEN 1 ELSE 0),
                      d_star_runs   |-> obs.d_star_runs
                                          + (IF r.branch \in {"d_star_lite_simple", "fallback"}
                                             THEN 1 ELSE 0),
                      fallbacks     |-> obs.fallbacks + (IF r.branch = "fallback" THEN 1 ELSE 0)]
    /\ call' = [start |-> start, goal |-> goal, obstacles |-> obstacles]
    /\ prev' = [call |-> call, result |-> result]
    /\ calls' = calls + 1
    /\ UNCHANGED <<grid, dsl, pc, pending, todo, iterations, csp_exit, after, sim, seen, batch, simple>>

HNext ==
    \E start \in HStartCells(grid) :
      \E goal \in HGoalCells(grid) :
        \E obstacles \in HObstacleSets(grid, start, goal) :
           HybridFindPath(start, goal, obstacles)

SpecH == HInit /\ [][HNext]_vars

-----------------------------------------------------------------------------
(* Inputs of the simulation runs *)

\* 4x4 grids as EnvironmentSetup::generate and create_grid make them: the
\* last one has a dead end at (0,2), and the walls of the one before it enclose
\* the goal
SimGrids ==
    { MakeGrid(4, {}, <<0, 0>>, <<3, 3>>),
      MakeGrid(4, {<<1, 1>>}, <<0, 0>>, <<3, 3>>),
      MakeGrid(4, {<<1, 1>>, <<2, 2>>}, <<0, 1>>, <<3, 2>>),
      MakeGrid(4, {<<2, 3>>, <<3, 2>>}, <<0, 0>>, <<3, 3>>),
      MakeGrid(4, {<<0, 3>>, <<1, 1>>, <<1, 2>>}, <<0, 1>>, <<2, 2>>) }

\* config.algorithm
SimAlgorithms == {"a_star", "d_star_lite", "hybrid"}

\* the cells the timeline can name: no wall, not start, not goal (generate)
SimObstacleCells(g) ==
    {<<0, 2>>, <<1, 0>>, <<2, 1>>} \ {g.start, g.goal}

SimGroups(g) ==
    {O \in SUBSET SimObstacleCells(g) : O # {} /\ Cardinality(O) <= MaxObstacles + 1}

\* obstacle_timeline: up to MaxGroups groups
SimTimelines(g) == UNION {[1..n -> SimGroups(g)] : n \in 0..MaxGroups}

\* (obstacle_cycle_interval, obstacle_persistence_cycles); generate sets (5, 5)
SimCycles == {<<1, 1>>, <<1, 3>>, <<2, 1>>, <<2, 3>>, <<5, 5>>}

SimEnvironments(g) ==
    {[obstacle_timeline           |-> t,
      obstacle_cycle_interval     |-> c[1],
      obstacle_persistence_cycles |-> c[2]] : t \in SimTimelines(g), c \in SimCycles}

-----------------------------------------------------------------------------
(* Simulation::run, one action per step of a tick *)

\* the engine variables, which the simulation leaves alone (it holds its
\* algorithm in sim.algorithm), and the batch it may be part of
engine_vars ==
    <<dsl, pc, call, pending, todo, iterations, csp_exit, result, prev, calls, after,
      hybrid, branch, obs, batch, simple>>

\* seen is the observer's record of the current tick (steps, the grid and the
\* groups before it, the arguments of find_path), of the failed find_path
\* calls in a row, of the ticks begun and of the cells the agent has stood on
SeenAtStart(g) ==
    [tick |-> 0, steps |-> <<>>, cells_before |-> g.cells,
     groups_before |-> <<>>, cycles_before |-> 0, cycle_before |-> 0,
     births |-> {}, observed |-> {}, position_before |-> g.start,
     find_path_args |-> <<>>, failures |-> 0, ticks |-> 0, positions |-> <<g.start>>]

SimInit ==
    /\ grid \in SimGrids
    /\ \E name \in SimAlgorithms : \E environment \in SimEnvironments(grid) :
          sim = Simulation_new(name, grid, environment)
    /\ seen = SeenAtStart(grid)
    /\ batch = NoBatch
    /\ simple = NoSimple
    /\ dsl = DStarLite_new(grid.start, grid.goal)
    /\ pc = "idle"
    /\ call = NoCall(grid)
    /\ pending = {}
    /\ todo = <<>>
    /\ iterations = 0
    /\ csp_exit = "none"
    /\ result = None
    /\ prev = [call |-> NoCall(grid), result |-> None]
    /\ calls = 0
    /\ after = "new"
    /\ hybrid = HybridAStarDStar_new(grid.start, grid.goal)
    /\ branch = "none"
    /\ obs = NoObs(grid)

\* lines 242-254: the initial path, or return
initial_path_result(self, r) ==
    IF r.result # None
    THEN [self EXCEPT !.algorithm = r.self, !.agent = set_path(@, r.result), !.pc = "loop"]
    ELSE [self EXCEPT !.algorithm = r.self, !.pc = "done", !.exit = "no_initial_path"]

SimStart ==
    /\ sim.pc = "start"
    /\ \E order \in HashOrders :
          sim' = initial_path_result(sim,
                    algorithm_find_path(sim.algorithm, grid, sim.agent.position, grid.goal,
                                        sim.agent.known_obstacles, order))
    /\ seen' = [seen EXCEPT !.steps = <<"find_path">>,
                            !.find_path_args = <<sim.agent.position, sim.agent.known_obstacles>>]
    /\ UNCHANGED <<grid, engine_vars>>

\* line 257: the condition of the while loop
loop_condition(self, g) ==
    self.agent.position # g.goal /\ self.total_iterations < sim_max_iterations(g)

\* the groups that outlive this advance step, and the observer's birth ticks
Survivors(groups) == {groups[i].positions : i \in {j \in 1..Len(groups) : groups[j].cycles_remaining > 1}}

\* line 259: update_obstacles_from_timeline
SimAdvance ==
    /\ sim.pc = "loop"
    /\ loop_condition(sim, grid)
    /\ \E order \in HashOrders :
          \E r \in {update_obstacles_from_timeline(sim, grid, order)} :
             /\ sim' = [r.self EXCEPT !.obstacles_changed = r.obstacles_changed,
                                      !.pc = "observe"]
             /\ grid' = r.grid
    /\ seen' = [tick            |-> sim.total_iterations + 1,
                steps           |-> <<"advance">>,
                cells_before    |-> grid.cells,
                groups_before   |-> sim.active_obstacle_groups,
                cycles_before   |-> sim.cycles_since_last_obstacle,
                cycle_before    |-> sim.current_obstacle_cycle,
                births          |->
                    {b \in seen.births : b.positions \in Survivors(sim.active_obstacle_groups)}
                      \cup (IF Len(sim'.active_obstacle_groups)
                                 > Cardinality(Survivors(sim.active_obstacle_groups))
                            THEN {[positions |-> sim'.active_obstacle_groups[
                                                    Len(sim'.active_obstacle_groups)].positions,
                                   born      |-> sim.total_iterations + 1]}
                            ELSE {}),
                observed        |-> {},
                position_before |-> sim.agent.position,
                find_path_args  |-> <<>>,
                failures        |-> seen.failures,
                ticks           |-> seen.ticks + 1,
                positions       |-> seen.positions]
    /\ UNCHANGED engine_vars

\* line 263: agent.observe
SimObserve ==
    /\ sim.pc = "observe"
    /\ sim' = [sim EXCEPT !.agent = observe(@, grid), !.pc = "decide"]
    /\ seen' = [seen EXCEPT !.steps = Append(@, "observe"),
                            !.observed = observe(sim.agent, grid).known_obstacles]
    /\ UNCHANGED <<grid, engine_vars>>

\* needs_recalc without the obstacles_changed flag
needs_recalc_ignoring_obstacles_changed(self, g) ==
    \/ path_needs_recalculation(self.agent, g)
    \/ is_path_blocked(self.agent, g)

\* a decision that looks neither at the path nor at the obstacles
needs_recalc_never(self, g) == FALSE

\* lines 268-270: needs_recalc
needs_recalc(self, g) ==
    \/ path_needs_recalculation(self.agent, g)
    \/ is_path_blocked(self.agent, g)
    \/ self.obstacles_changed

SimDecide ==
    /\ sim.pc = "decide"
    /\ sim' = [sim EXCEPT !.needs_recalc = needs_recalc(sim, grid),
                          !.pc = IF needs_recalc(sim, grid) THEN "replan" ELSE "move"]
    /\ seen' = [seen EXCEPT !.steps = Append(@, "decide")]
    /\ UNCHANGED <<grid, engine_vars>>

\* lines 290-314: the new path is installed, or the agent waits, or the run
\* gives up
replan_result(self, r) ==
    IF r.result # None
    THEN [self EXCEPT !.algorithm = r.self,
                      !.agent = set_path(@, r.result),
                      !.stuck_attempts = 0,
                      !.pc = "move"]
    ELSE IF self.stuck_attempts + 1 <= MAX_STUCK_ATTEMPTS
         THEN [self EXCEPT !.algorithm = r.self,
                           !.stuck_attempts = @ + 1,
                           !.total_moves = @ + 1,
                           !.pc = "move"]
         ELSE [self EXCEPT !.algorithm = r.self,
                           !.stuck_attempts = @ + 1,
                           !.pc = "break",
                           !.exit = "stuck"]

\* lines 272-315: update_environment (the trait's default, which does
\* nothing) and find_path
SimReplan ==
    /\ sim.pc = "replan"
    /\ \E order \in HashOrders :
       \E r \in {algorithm_find_path(sim.algorithm, grid, sim.agent.position, grid.goal,
                                     sim.agent.known_obstacles, order)} :
          /\ sim' = replan_result(sim, r)
          /\ seen' = [seen EXCEPT
                        !.steps = @ \o <<"update_environment", "find_path">>,
                        !.find_path_args = <<sim.agent.position, sim.agent.known_obstacles>>,
                        !.failures = IF r.result = None THEN @ + 1 ELSE 0]
    /\ UNCHANGED <<grid, engine_vars>>

\* an iteration that counts itself and then blocks instead of going back to
\* the head of the loop
end_of_iteration_blocking(self, g) ==
    [self EXCEPT !.total_iterations = @ + 1, !.pc = "blocked"]

\* lines 385-391: the end of an iteration
end_of_iteration(self, g) ==
    IF self.total_iterations + 1 >= sim_max_iterations(g)
    THEN [self EXCEPT !.total_iterations = @ + 1, !.pc = "break", !.exit = "cap"]
    ELSE [self EXCEPT !.total_iterations = @ + 1, !.pc = "loop"]

\* following the path without counting the move
follow_path_uncounted(self, g) ==
    IF self.stuck_attempts = 0
    THEN IF get_next_step(self.agent) # NoStep
         THEN end_of_iteration([self EXCEPT !.agent = move_to(@, get_next_step(self.agent))], g)
         ELSE [self EXCEPT !.agent = IF is_at_goal(@, g.goal) THEN @ ELSE clear_path(@),
                           !.pc = "break",
                           !.exit = "path_end"]
    ELSE end_of_iteration(self, g)

\* lines 318-383: follow the path, or stop at its end
follow_path(self, g) ==
    IF self.stuck_attempts = 0
    THEN IF get_next_step(self.agent) # NoStep
         THEN end_of_iteration([self EXCEPT !.agent = move_to(@, get_next_step(self.agent)),
                                            !.total_moves = @ + 1], g)
         ELSE [self EXCEPT !.agent = IF is_at_goal(@, g.goal) THEN @ ELSE clear_path(@),
                           !.pc = "break",
                           !.exit = "path_end"]
    ELSE end_of_iteration(self, g)

SimMove ==
    /\ sim.pc = "move"
    /\ sim' = follow_path(sim, grid)
    /\ seen' = [seen EXCEPT !.steps = Append(@, "move"),
                            !.positions = IF sim'.agent.position # sim.agent.position
                                          THEN Append(@, sim'.agent.position) ELSE @]
    /\ UNCHANGED <<grid, engine_vars>>

\* lines 257 and 394: the loop is left, clear_all_obstacles
SimFinish ==
    /\ \/ sim.pc = "break"
       \/ sim.pc = "loop" /\ ~loop_condition(sim, grid)
    /\ LET r == clear_all_obstacles(sim, grid)
       IN  /\ sim' = [r.self EXCEPT !.pc = "done",
                                    !.exit = IF sim.pc = "break" THEN @ ELSE "goal"]
           /\ grid' = r.grid
    /\ seen' = [seen EXCEPT !.steps = <<"finish">>]
    /\ UNCHANGED engine_vars

SimNext ==
    \/ SimStart
    \/ SimAdvance
    \/ SimObserve
    \/ SimDecide
    \/ SimReplan
    \/ SimMove
    \/ SimFinish

SpecSim == SimInit /\ [][SimNext]_vars

\* run is sequential code: whenever a step of it can be taken, it is taken.
\* SimStart and SimReplan can be taken exactly when sim.pc is "start" and
\* "replan", and they leave that value, so their weak fairness is that sim.pc
\* does not keep it for ever.
SpecSimLive ==
    /\ SimInit /\ [][SimNext]_vars
    /\ WF_vars(SimAdvance) /\ WF_vars(SimObserve) /\ WF_vars(SimDecide)
    /\ WF_vars(SimMove) /\ WF_vars(SimFinish)
    /\ []<>(sim.pc # "start") /\ []<>(sim.pc # "replan")

-----------------------------------------------------------------------------
(* batch_simulation.rs: BatchSimulation::run_configuration *)

\* BatchSimulation::new
batch_size == 100

\* config.algorithm of a batch
BatchAlgorithms == {"a_star", "d_star_lite", "hybrid", "all"}

\* the algorithms of run_all_algorithms, in the order it runs them
AllAlgorithms == <<"a_star", "d_star_lite", "hybrid">>

\* what EnvironmentSetup::generate can draw for a simulation of the batch:
\* a grid with one wall, a grid whose walls enclose the goal, a grid with a
\* dead end, each with a timeline
BatchSetups ==
    {[grid |-> g, environment |-> [obstacle_timeline           |-> t,
                                   obstacle_cycle_interval     |-> 2,
                                   obstacle_persistence_cycles |-> 1]] :
        g \in {MakeGrid(4, {<<1, 1>>}, <<0, 0>>, <<3, 3>>),
               MakeGrid(4, {<<2, 3>>, <<3, 2>>}, <<0, 0>>, <<3, 3>>),
               MakeGrid(4, {<<0, 3>>, <<1, 1>>, <<1, 2>>}, <<0, 1>>, <<2, 2>>)},
        t \in {<<>>, <<{<<1, 0>>}>>}}

\* BatchSimulation::new and the locals of run_configuration; setup_failed
\* is the observer's note of the simulations whose setup returned Err
BatchSimulation_new(algorithm, num_simulations) ==
    [config                |-> [algorithm |-> algorithm, num_simulations |-> num_simulations],
     results               |-> <<>>,
     total_results_written |-> 0,
     sim_id                |-> 0,
     completed_count       |-> 0,
     setup                 |-> None,
     runner                |-> 0,
     algorithm_results     |-> <<>>,
     setup_failed          |-> {},
     returned              |-> "none",
     pc                    |-> "loop"]

\* lines 187-203 and 246-262: the row of a simulation that was not set up
failed_result(sim_id, algorithm) ==
    [simulation_id       |-> sim_id,
     algorithm           |-> algorithm,
     success             |-> FALSE,
     total_moves         |-> 0,
     optimal_path_length |-> 0]

\* lines 185-186: the algorithms that get a row when run_all_algorithms fails
failed_algorithms == <<"a_star", "d_star_lite">>

\* lines 184-205: run_all_algorithms returned Err
push_failed_results(self) ==
    [self EXCEPT !.results = @ \o [i \in 1..Len(failed_algorithms) |->
                                       failed_result(self.sim_id, failed_algorithms[i])],
                 !.setup_failed = @ \cup {self.sim_id},
                 !.sim_id = @ + 1,
                 !.completed_count = @ + 1]

\* lines 243-265: Simulation::new returned Err
push_failed_result(self) ==
    [self EXCEPT !.results = Append(@, failed_result(self.sim_id, self.config.algorithm)),
                 !.setup_failed = @ \cup {self.sim_id},
                 !.sim_id = @ + 1,
                 !.completed_count = @ + 1]

\* simulation.rs lines 611-621: the AlgorithmResult of a finished simulation
AlgorithmResult(name, simulation, g) ==
    [name                |-> name,
     success             |-> is_at_goal(simulation.agent, g.goal),
     total_moves         |-> simulation.total_moves,
     optimal_path_length |-> simulation.optimal_path_length]

\* convert_algorithm_result_to_batch_result
convert_algorithm_result_to_batch_result(r, sim_id) ==
    [simulation_id       |-> sim_id,
     algorithm           |-> r.name,
     success             |-> r.success,
     total_moves         |-> r.total_moves,
     optimal_path_length |-> r.optimal_path_length]

\* lines 213-241: the row of a finished simulation of a single algorithm
batch_result(self, simulation, g) ==
    [simulation_id       |-> self.sim_id,
     algorithm           |-> self.config.algorithm,
     success             |-> simulation.agent.position = g.goal,
     total_moves         |-> simulation.total_moves,
     optimal_path_length |-> simulation.optimal_path_length]

\* flush_results_to_csv: [self, ok]; the file may fail to open or to take a row
flush_results_to_csv(self, io_ok) ==
    IF self.results = <<>> THEN [self |-> self, ok |-> TRUE]
    ELSE IF ~io_ok THEN [self |-> self, ok |-> FALSE]
    ELSE [self |-> [self EXCEPT !.total_results_written = @ + Len(self.results),
                                !.results = <<>>],
          ok   |-> TRUE]

\* lines 271-274: the end of run_configuration
return_completed_count(self, io_ok) ==
    IF Len(self.results) >= batch_size
    THEN LET r == flush_results_to_csv(self, io_ok)
         IN  [r.self EXCEPT !.returned = IF r.ok THEN "Ok" ELSE "Err", !.pc = "returned"]
    ELSE [self EXCEPT !.returned = "Ok", !.pc = "returned"]

BInit ==
    /\ \E algorithm \in BatchAlgorithms : \E num_simulations \in 1..MaxSimulations :
          batch = BatchSimulation_new(algorithm, num_simulations)
    /\ grid = MakeGrid(4, {}, <<0, 0>>, <<3, 3>>)
    /\ sim = NoSim
    /\ seen = SeenAtStart(grid)
    /\ simple = NoSimple
    /\ dsl = DStarLite_new(grid.start, grid.goal)
    /\ pc = "idle"
    /\ call = NoCall(grid)
    /\ pending = {}
    /\ todo = <<>>
    /\ iterations = 0
    /\ csp_exit = "none"
    /\ result = None
    /\ prev = [call |-> NoCall(grid), result |-> None]
    /\ calls = 0
    /\ after = "new"
    /\ hybrid = HybridAStarDStar_new(grid.start, grid.goal)
    /\ branch = "none"
    /\ obs = NoObs(grid)

batch_engine_vars ==
    <<dsl, pc, call, pending, todo, iterations, csp_exit, result, prev, calls, after,
      hybrid, branch, obs, simple>>

\* lines 166-169: the timeout, read from the clock
BatchTimeout ==
    /\ batch.pc = "loop"
    /\ batch.sim_id < batch.config.num_simulations
    /\ batch' = [batch EXCEPT !.returned = "Ok", !.pc = "returned"]
    /\ UNCHANGED <<grid, sim, seen, batch_engine_vars>>

\* lines 173-176 and simulation.rs lines 567-591: run_all_algorithms
\* generates the environment and returns Err, or begins with its first
\* algorithm
BatchRunAllAlgorithms ==
    /\ batch.pc = "loop"
    /\ batch.sim_id < batch.config.num_simulations
    /\ batch.config.algorithm = "all"
    /\ \E setup \in BatchSetups :
          IF calculate_optimal_path_with_astar(setup.grid) = 0
          THEN /\ batch' = push_failed_results(batch)
               /\ UNCHANGED <<grid, sim, seen>>
          ELSE /\ batch' = [batch EXCEPT !.setup = setup, !.runner = 1,
                                         !.algorithm_results = <<>>, !.pc = "run_all"]
               /\ grid' = setup.grid
               /\ sim' = Simulation_new(AllAlgorithms[1], setup.grid, setup.environment)
               /\ seen' = SeenAtStart(setup.grid)
    /\ UNCHANGED batch_engine_vars

\* simulation.rs lines 593-641 and lines 177-186: a simulation of
\* run_all_algorithms has run; the next algorithm gets the same environment,
\* and after the last one the results become rows
BatchAlgorithmDone ==
    /\ batch.pc = "run_all"
    /\ sim.pc = "done"
    /\ LET results == Append(batch.algorithm_results,
                             AlgorithmResult(AllAlgorithms[batch.runner], sim, grid))
       IN  IF batch.runner < Len(AllAlgorithms)
           THEN /\ batch' = [batch EXCEPT !.runner = @ + 1, !.algorithm_results = results]
                /\ grid' = batch.setup.grid
                /\ sim' = Simulation_new(AllAlgorithms[batch.runner + 1], batch.setup.grid,
                                         batch.setup.environment)
                /\ seen' = SeenAtStart(batch.setup.grid)
           ELSE /\ batch' = [batch EXCEPT
                                !.results = @ \o [i \in 1..Len(results) |->
                                    convert_algorithm_result_to_batch_result(results[i],
                                                                             batch.sim_id)],
                                !.algorithm_results = <<>>,
                                !.runner = 0,
                                !.setup = None,
                                !.sim_id = @ + 1,
                                !.completed_count = @ + 1,
                                !.pc = "loop"]
                /\ sim' = NoSim
                /\ UNCHANGED <<grid, seen>>
    /\ UNCHANGED batch_engine_vars

\* lines 208-210 and 243-265: Simulation::new generates the environment and
\* returns the simulation or Err
BatchNewSimulation ==
    /\ batch.pc = "loop"
    /\ batch.sim_id < batch.config.num_simulations
    /\ batch.config.algorithm # "all"
    /\ \E setup \in BatchSetups :
       \E simulation \in {Simulation_new(batch.config.algorithm, setup.grid,
                                         setup.environment)} :
          IF simulation.pc = "error"
          THEN /\ batch' = push_failed_result(batch)
               /\ UNCHANGED <<grid, sim, seen>>
          ELSE /\ batch' = [batch EXCEPT !.setup = setup, !.pc = "run"]
               /\ grid' = setup.grid
               /\ sim' = simulation
               /\ seen' = SeenAtStart(setup.grid)
    /\ UNCHANGED batch_engine_vars

\* lines 211-242: simulation.run has returned
BatchSimulationDone ==
    /\ batch.pc = "run"
    /\ sim.pc = "done"
    /\ batch' = [batch EXCEPT !.results = Append(@, batch_result(batch, sim, grid)),
                              !.setup = None,
                              !.sim_id = @ + 1,
                              !.completed_count = @ + 1,
                              !.pc = "loop"]
    /\ sim' = NoSim
    /\ UNCHANGED <<grid, seen, batch_engine_vars>>

\* lines 163 and 271-275: the loop is over
BatchReturn ==
    /\ batch.pc = "loop"
    /\ batch.sim_id = batch.config.num_simulations
    /\ \E io_ok \in BOOLEAN : batch' = return_completed_count(batch, io_ok)
    /\ UNCHANGED <<grid, sim, seen, batch_engine_vars>>

BNext ==
    \/ BatchTimeout
    \/ BatchRunAllAlgorithms
    \/ BatchAlgorithmDone
    \/ BatchNewSimulation
    \/ BatchSimulationDone
    \/ BatchReturn
    \/ SimStart
    \/ SimAdvance
    \/ SimObserve
    \/ SimDecide
    \/ SimReplan
    \/ SimMove
    \/ SimFinish

SpecB == BInit /\ [][BNext]_vars


-----------------------------------------------------------------------------
(* Notions the claims are stated in *)

\* find_path has returned and no other call is in progress
Returned == pc = "idle" /\ calls > 0

\* the cells a path may enter: not a Wall, not in the obstacle set
FreeCells(g, obstacles) ==
    {p \in Positions(g.size) : g.cells[p] # "Wall" /\ p \notin obstacles}

RECURSIVE ReachableFrom(_, _, _)
\* the cells reachable from the set S by 4-neighbour steps into free cells
ReachableFrom(g, obstacles, S) ==
    LET T == S \cup {q \in FreeCells(g, obstacles) : \E p \in S : Manhattan(p, q) = 1}
    IN  IF T = S THEN S ELSE ReachableFrom(g, obstacles, T)

PathExists(g, start, goal, obstacles) == goal \in ReachableFrom(g, obstacles, {start})

\* start..goal by 4-neighbour steps, no Wall, no obstacle after the first cell
ValidPath(path, g, start, goal, obstacles) ==
    /\ path # <<>>
    /\ path[1] = start
    /\ path[Len(path)] = goal
    /\ \A i \in 1..(Len(path) - 1) : Manhattan(path[i], path[i + 1]) = 1
    /\ \A i \in 1..Len(path) : InBounds(g, path[i]) /\ g.cells[path[i]] # "Wall"
    /\ \A i \in 2..Len(path) : path[i] \notin obstacles

\* numeric (lexicographic) order of keys
KeyNumLe(a, b) == a[1] < b[1] \/ (a[1] = b[1] /\ a[2] <= b[2])

InQueue(self, pos) == \E e \in self.queue : e[2] = pos

-----------------------------------------------------------------------------
(* Claims about DStarLite, checked under SpecD *)

\* C1: every non-none result of DStarLite.find_path starts at the call's start,
\* ends at the goal, moves by single 4-neighbour steps, holds no Wall and no
\* cell after the first that is in the call's obstacle set.
C1_PathValid ==
    (Returned /\ result # None)
        => ValidPath(result, grid, call.start, call.goal, call.obstacles)

C1_Witness ==
    /\ Returned
    /\ calls >= 2
    /\ result # None
    /\ Len(result) >= 4
    /\ call.obstacles # {}
    /\ call.obstacles # prev.call.obstacles

\* C2: find_path returns a path exactly when a 4-connected path from start to
\* goal avoiding Walls and the current obstacles exists, whatever calls were
\* made before.
C2_PathIffReachable ==
    Returned
        => ((result # None) <=> PathExists(grid, call.start, call.goal, call.obstacles))

\* the path A* returns for the current call's arguments
AStarPath == AStar_find_path(grid, call.start, call.goal, call.obstacles)

\* C3: the first find_path call of a fresh engine, with the empty obstacle
\* set, returns a path with as many cells as the shortest path, the length A*
\* returns, on any grid.
C3_FirstCallShortest ==
    (Returned /\ calls = 1 /\ call.obstacles = {})
        => (result # None /\ Len(result) = Len(AStarPath))

\* C4: every call's path has the length of the path A* returns for the same
\* arguments, and is none exactly when A* returns none.
C4_LengthEqualsAStar ==
    Returned
        => /\ (result = None) <=> (AStarPath = None)
           /\ Len(result) = Len(AStarPath)

\* C7: two find_path calls in a row with identical arguments return identical
\* results, after any earlier calls.
C7_Idempotent ==
    (Returned /\ calls >= 2 /\ prev.call = call) => result = prev.result

C7_Witness ==
    /\ Returned
    /\ calls >= 3
    /\ prev.call = call
    /\ call.obstacles # {}
    /\ dsl.k_m > 0
    /\ result # None

\* C8: when compute_shortest_path returns, U is empty, or the numerically
\* smallest key in U is >= key(s_start) and rhs(s_start) = g(s_start).
C8_QueueTopAfterCompute ==
    after = "compute_shortest_path"
        => \/ dsl.queue = {}
           \/ /\ \A e \in dsl.queue : KeyNumLe(calculate_key(dsl, dsl.start), e[1])
              /\ GetOr(dsl.rhs_scores, dsl.start) = GetOr(dsl.g_scores, dsl.start)

\* the edge cost the specification defines: 1 into a free in-bounds cell
SpecCost(g, to, obstacles) ==
    IF InBounds(g, to) /\ g.cells[to] # "Wall" /\ to \notin obstacles THEN 1 ELSE Inf

\* min over the 4-neighbour successors s' of c(s, s') + g(s')
SpecRhs(self, g, s, obstacles) ==
    LET succ == {<<s[1] + Directions[i][1], s[2] + Directions[i][2]>> : i \in 1..4}
        vals == {saturating_add(GetOr(self.g_scores, t), 1) :
                    t \in {t \in succ : SpecCost(g, t, obstacles) = 1}}
    IN  IF vals = {} THEN Inf ELSE CHOOSE v \in vals : \A w \in vals : v <= w

\* C9: between find_path calls rhs(goal) = 0 and every other stored rhs(s)
\* equals the minimum over successors s' of c(s, s') + g(s').
C9_RhsInvariant ==
    Returned
        => /\ GetOr(dsl.rhs_scores, dsl.goal) = 0
           /\ \A s \in (DOMAIN dsl.rhs_scores) \ {dsl.goal} :
                 dsl.rhs_scores[s] = SpecRhs(dsl, grid, s, call.obstacles)

\* C10: after initialize, after each update_vertex and after
\* compute_shortest_path returns, a vertex is in U iff g(s) # rhs(s).
C10_QueueIffInconsistent ==
    after \in {"initialize", "update_vertex", "compute_shortest_path"}
        => \A p \in Positions(grid.size) :
              InQueue(dsl, p) <=> (GetOr(dsl.g_scores, p) # GetOr(dsl.rhs_scores, p))

C10_Witness ==
    /\ after = "update_vertex"
    /\ pc = "expand"
    /\ calls >= 1
    /\ dsl.queue # {}
    /\ \E p \in Positions(grid.size) :
          ~InQueue(dsl, p) /\ GetOr(dsl.g_scores, p) # Inf
    /\ \E p \in Positions(grid.size) :
          InQueue(dsl, p) /\ GetOr(dsl.g_scores, p) # Inf

\* the queue never holds two entries of one position
QueueEntriesUnique ==
    \A e, f \in dsl.queue : e[2] = f[2] => e = f

-----------------------------------------------------------------------------
(* Claims about HybridAStarDStar, checked under SpecH *)

\* a hybrid find_path call has returned
Served == calls > 0 /\ branch \in {"a_star", "d_star_lite_simple", "fallback"}

\* C5: whichever branch serves a hybrid find_path call, a non-none result
\* starts at the call's start, ends at the goal, moves by single 4-neighbour
\* steps, holds no Wall and no cell after the first that is an obstacle.
C5_HybridPathValid ==
    (Served /\ result # None)
        => ValidPath(result, grid, call.start, call.goal, call.obstacles)

C5_Witness ==
    /\ Served
    /\ branch = "d_star_lite_simple"
    /\ result # None
    /\ Len(result) >= 5
    /\ call.obstacles # {}

\* C6 as stated: the path of the last hybrid call is, cell for cell, the
\* path A* returns for the same arguments.
C6_IdenticalToAStar ==
    Served => result = AStarPath

\* C6 as amended: the path of the last hybrid call has as many cells as the
\* path A* returns for the same arguments, and is none exactly when A*
\* returns none.
C6_SameLengthAsAStar ==
    Served
        => /\ (result = None) <=> (AStarPath = None)
           /\ Len(result) = Len(AStarPath)

C6_Witness ==
    /\ Served
    /\ branch = "d_star_lite_simple"
    /\ result # None
    /\ result # AStarPath
    /\ Len(result) = Len(AStarPath)

-----------------------------------------------------------------------------
(* The dispatch policy of the hybrid *)

\* the call ran A* directly / ran D* Lite Simple first
RanAStar == branch = "a_star"
RanDStarFirst == branch \in {"d_star_lite_simple", "fallback"}

\* the first three A* conditions, as an observer of the calls sees them: no
\* path was returned before this call; the goal is not the goal the
\* dispatcher recorded last; the start is more than 3 steps from the start
\* it recorded last
NoPathYet == ~obs.path_returned
GoalDiffers == call.goal # obs.before.last_goal
StartJumped == Manhattan(call.start, obs.before.last_start) > 3

\* the obstacle-change threshold as the code measures it: the two sets
\* differ and their sizes differ by more than 5
ObstacleCountJumped ==
    /\ call.obstacles # obs.before.last_obstacles
    /\ Abs(Cardinality(call.obstacles) - Cardinality(obs.before.last_obstacles)) > 5

\* C11: a call runs A* when no path has been returned yet, or the goal
\* differs from the last recorded goal, or the start is more than 3 steps from
\* the last recorded start; when none of these holds and the obstacle-change
\* threshold is not passed either, the call runs D* Lite Simple first
C11_DispatchPolicy ==
    Served =>
      /\ (NoPathYet \/ GoalDiffers \/ StartJumped) => RanAStar
      /\ (~NoPathYet /\ ~GoalDiffers /\ ~StartJumped /\ ~ObstacleCountJumped) => RanDStarFirst

\* a call that ran A* only because the start jumped, after calls that ran
\* D* Lite Simple
C11_Witness ==
    /\ Served /\ RanAStar
    /\ ~NoPathYet /\ ~GoalDiffers /\ StartJumped /\ ~ObstacleCountJumped
    /\ obs.d_star_runs > 0

SymmetricDifference(A, B) == (A \ B) \cup (B \ A)

\* C12: a call whose obstacle set differs from the previous call's obstacle
\* set by more than 5 positions (size of the symmetric difference) runs A*,
\* directly or at least as the fallback
C12_SymmetricDifferenceForcesAStar ==
    (Served /\ calls >= 2
       /\ Cardinality(SymmetricDifference(call.obstacles, prev.call.obstacles)) > 5)
      => branch \in {"a_star", "fallback"}

\* C12 (amended): a call whose obstacle set differs from the obstacle set the
\* dispatcher recorded last, with sizes more than 5 apart, runs A*
C12_CountDifferenceForcesAStar == (Served /\ ObstacleCountJumped) => RanAStar

\* a call that ran A* only because six obstacles appeared
C12_Witness ==
    /\ Served /\ RanAStar
    /\ ~NoPathYet /\ ~GoalDiffers /\ ~StartJumped /\ ObstacleCountJumped

\* C13: when D* Lite Simple was chosen and returned none, the call returns
\* exactly what A* returns for the same arguments; the hybrid returns none
\* only if A* returns none
C13_FallbackIsAStar ==
    /\ branch = "fallback" => result = AStarPath
    /\ (Served /\ result = None) => AStarPath = None

\* a fallback: the obstacles cut the goal off after a path had been found
C13_Witness ==
    /\ branch = "fallback"
    /\ call.obstacles # {}
    /\ PathExists(grid, call.start, call.goal, {})

\* C14: usage_stats is (number of A* runs, number of D* Lite Simple runs),
\* their sum is the number of calls plus the number of fallbacks, no counter
\* is below its value before the call, and the first call counts as A*
C14_UsageStats ==
    /\ get_usage_stats(hybrid) = <<obs.a_star_runs, obs.d_star_runs>>
    /\ get_usage_stats(hybrid)[1] + get_usage_stats(hybrid)[2] = calls + obs.fallbacks
    /\ get_usage_stats(hybrid)[1] >= get_usage_stats(obs.before)[1]
    /\ get_usage_stats(hybrid)[2] >= get_usage_stats(obs.before)[2]
    /\ calls = 1 => get_usage_stats(hybrid) = <<1, 0>>

\* three calls: A*, D* Lite Simple, and one that fell back
C14_Witness ==
    /\ calls = 3
    /\ obs.fallbacks = 1
    /\ get_usage_stats(hybrid) = <<2, 2>>

-----------------------------------------------------------------------------
(* The simulation driver *)

\* the step of the tick that was taken last
LastStep == IF seen.steps = <<>> THEN "none" ELSE seen.steps[Len(seen.steps)]

\* the cells of the box [x-r, x+r] x [y-r, y+r], clamped to the grid
SensingBox(g, pos, r) ==
    {p \in Positions(g.size) : Abs(p[1] - pos[1]) <= r /\ Abs(p[2] - pos[2]) <= r}

ObstacleCellsOf(g) == {p \in Positions(g.size) : g.cells[p] = "Obstacle"}

\* C15: after every observe step, known_obstacles is exactly the set of
\* Obstacle cells in the sensing box (radius 1) around the agent
C15_KnownIsSensedBox ==
    LastStep = "observe" =>
        sim.agent.known_obstacles = SensingBox(grid, sim.agent.position, 1) \cap ObstacleCellsOf(grid)

\* what the observer knows after an advance step: the groups that expired in
\* it, the cells the driver turned into Obstacle in it, and the cells that
\* are Obstacle now and were not before
ExpiredCells ==
    UNION {seen.groups_before[i].positions :
             i \in {j \in 1..Len(seen.groups_before) : seen.groups_before[j].cycles_remaining <= 1}}
Placed == UNION {b.positions : b \in {c \in seen.births : c.born = seen.tick}}
NewObstacles ==
    {p \in Positions(grid.size) : grid.cells[p] = "Obstacle" /\ seen.cells_before[p] # "Obstacle"}
WallCells(cells) == {p \in DOMAIN cells : cells[p] = "Wall"}
Timeline == sim.environment.obstacle_timeline

\* C16: a cell the driver turns into Obstacle was Empty just before and is
\* not the start, the goal or the agent's cell; start and goal are never
\* Obstacle and no Wall cell changes
C16_PlacementIsValid ==
    /\ LastStep = "advance" =>
         /\ NewObstacles \subseteq Placed
         /\ \A p \in Placed :
               /\ grid.cells[p] = "Obstacle"
               /\ seen.cells_before[p] = "Empty" \/ p \in ExpiredCells
               /\ p \notin {grid.start, grid.goal, seen.position_before}
    /\ grid.cells[grid.start] = "Empty"
    /\ grid.cells[grid.goal] = "Empty"
    /\ WallCells(grid.cells) = WallCells(seen.cells_before)

\* the second timeline entry named the agent's cell, and only its other
\* cells were placed
C16_Witness ==
    /\ LastStep = "advance"
    /\ Placed # {}
    /\ sim.current_obstacle_cycle = 2
    /\ seen.position_before \in Timeline[2]
    /\ sim.environment.obstacle_persistence_cycles = 3

Due == seen.tick % sim.environment.obstacle_cycle_interval = 0

\* C18: the next timeline entry is taken exactly on every
\* cycle_interval-th tick while entries remain, with remaining cycles =
\* persistence and the spawn counter back at 0; on no other tick does a cell
\* become Obstacle; entries are taken in order, none skipped or repeated
C18_TimelineSchedule ==
    LastStep = "advance" =>
       /\ sim.current_obstacle_cycle
             = Min2(Len(Timeline), seen.tick \div sim.environment.obstacle_cycle_interval)
       /\ IF Due /\ seen.cycle_before < Len(Timeline)
          THEN /\ sim.current_obstacle_cycle = seen.cycle_before + 1
               /\ Placed \subseteq Timeline[seen.cycle_before + 1]
               /\ NewObstacles \subseteq Timeline[seen.cycle_before + 1]
               /\ Placed # {} =>
                     sim.active_obstacle_groups[Len(sim.active_obstacle_groups)] =
                        [positions        |-> Placed,
                         cycles_remaining |-> sim.environment.obstacle_persistence_cycles]
          ELSE /\ sim.current_obstacle_cycle = seen.cycle_before
               /\ Placed = {}
               /\ NewObstacles = {}
       /\ Due => sim.cycles_since_last_obstacle = 0
       /\ ~Due => sim.cycles_since_last_obstacle = seen.cycles_before + 1

\* the second entry is taken on tick 4 of a run with cycle_interval 2
C18_Witness ==
    /\ LastStep = "advance"
    /\ sim.environment.obstacle_cycle_interval = 2
    /\ seen.tick = 4
    /\ sim.current_obstacle_cycle = 2
    /\ Placed # {}

\* one of the next 3 cells of the current path is a Wall, an Obstacle or a
\* known obstacle, as the observer reads it off the grid and the agent
AheadBlocked ==
    \E k \in 1..3 :
       /\ sim.agent.path_index + k < Len(sim.agent.current_path)
       /\ LET pos == sim.agent.current_path[sim.agent.path_index + k + 1]
          IN  grid.cells[pos] \in {"Wall", "Obstacle"} \/ pos \in sim.agent.known_obstacles

\* a group expired or a non-empty group was placed in this tick's advance step
ObstaclesChanged == ExpiredCells # {} \/ Placed # {}

\* C19: in every tick find_path is called iff one of the next 3 cells of the
\* path (the next one included) is blocked or the obstacles changed
C19_ReplanTrigger ==
    /\ LastStep = "decide" => ((sim.pc = "replan") <=> (AheadBlocked \/ ObstaclesChanged))
    /\ (LastStep = "move" /\ seen.tick > 0) =>
          (seen.find_path_args # <<>>) <=> (Len(seen.steps) = 6)

\* a replan that only the third cell ahead caused
C19_Witness ==
    /\ LastStep = "decide"
    /\ sim.pc = "replan"
    /\ ~ObstaclesChanged
    /\ sim.agent.path_index + 3 < Len(sim.agent.current_path)
    /\ \A k \in 1..2 :
          LET pos == sim.agent.current_path[sim.agent.path_index + k + 1]
          IN  grid.cells[pos] = "Empty" /\ pos \notin sim.agent.known_obstacles

TickWithReplan == <<"advance", "observe", "decide", "update_environment", "find_path", "move">>
TickWithoutReplan == <<"advance", "observe", "decide", "move">>
IsPrefix(a, b) == Len(a) <= Len(b) /\ a = SubSeq(b, 1, Len(a))

\* C20: the steps of a tick come in the order advance, observe, decide,
\* update_environment, find_path, move; the decision and find_path see the
\* known_obstacles of this tick's observe; the agent does not move before the
\* replan of the tick is over
C20_TickOrder ==
    (seen.tick > 0 /\ LastStep # "finish") =>
       /\ IsPrefix(seen.steps, TickWithReplan) \/ IsPrefix(seen.steps, TickWithoutReplan)
       /\ LastStep = "decide" => sim.agent.known_obstacles = seen.observed
       /\ LastStep = "find_path" =>
             seen.find_path_args = <<seen.position_before, seen.observed>>
       /\ LastStep # "move" => sim.agent.position = seen.position_before

\* a tick whose observe found a new obstacle, which the replan then used
C20_Witness ==
    /\ seen.tick > 1
    /\ LastStep = "find_path"
    /\ seen.observed # {}
    /\ seen.find_path_args[2] = seen.observed
    /\ sim.stuck_attempts = 0
    /\ sim.agent.current_path[1] = seen.position_before

-----------------------------------------------------------------------------
(* C21: the stuck limit of Simulation::run *)

\* the run has been constructed and is not a construction error
Running == sim.pc \notin {"none", "error"}

\* C21: no run performs more than 5 find_path calls in a row that return
\* none (the run is aborted once 5 replans in a row have failed), and a
\* successful replan resets the count of failures in a row to 0.
C21_AtMostFiveFailuresInARow ==
    Running =>
       /\ seen.failures <= MAX_STUCK_ATTEMPTS
       /\ sim.stuck_attempts = seen.failures

-----------------------------------------------------------------------------
(* C22: termination and the iteration cap of Simulation::run *)

\* run has returned (or the construction failed and nothing runs)
Finished == sim.pc \in {"done", "error"}

\* C22: for every environment and every engine run terminates, and its main
\* loop executes at most 4 * N * N iterations (N the grid size).
C22_TerminatesWithinCap ==
    /\ <>Finished
    /\ [](Running => /\ seen.ticks <= 4 * grid.size * grid.size
                      /\ sim.total_iterations <= 4 * grid.size * grid.size)

\* a run that was stopped by the cap, after 4 * 4 * 4 iterations
C22_Witness ==
    /\ sim.pc = "done" /\ sim.exit = "cap"
    /\ seen.ticks = 64 /\ sim.total_iterations = 64

-----------------------------------------------------------------------------
(* C23: the ways Simulation::run ends *)

\* the four ways, as conditions on the state run returns in
EndedAtGoal == sim.agent.position = grid.goal
EndedWithoutInitialPath ==
    /\ seen.ticks = 0 /\ sim.agent.current_path = None
    /\ sim.total_moves = 0 /\ sim.agent.position = grid.start
EndedStuck == seen.failures > MAX_STUCK_ATTEMPTS
EndedAtCap == seen.ticks >= 4 * grid.size * grid.size

\* C23: run ends in exactly one of four ways: the agent is at the goal; the
\* initial find_path returned none (total_moves = 0, the agent at start);
\* the stuck limit was exceeded; the iteration cap was reached.  The loop
\* never stops because the path is exhausted while the agent is not at the
\* goal.
C23_FourWaysToEnd ==
    /\ Running => sim.exit # "path_end"
    /\ sim.pc = "done" =>
          /\ Cardinality({w \in {"goal", "no_initial_path", "stuck", "cap"} :
                            \/ w = "goal" /\ EndedAtGoal
                            \/ w = "no_initial_path" /\ EndedWithoutInitialPath
                            \/ w = "stuck" /\ EndedStuck
                            \/ w = "cap" /\ EndedAtCap}) = 1
          /\ sim.exit = "goal" <=> EndedAtGoal
          /\ sim.exit = "no_initial_path" <=> EndedWithoutInitialPath
          /\ sim.exit = "stuck" <=> EndedStuck
          /\ sim.exit = "cap" <=> EndedAtCap

\* a run that returned because its engine found no initial path
C23_Witness ==
    /\ sim.pc = "done" /\ sim.exit = "no_initial_path"
    /\ sim.total_moves = 0 /\ sim.agent.position = grid.start

-----------------------------------------------------------------------------
(* C24: the construction of a Simulation *)

RECURSIVE StepsTo(_, _, _, _)
\* the least number of 4-neighbour steps through cells that are no Wall from
\* the set S (the cells within n steps of the start) to goal; Inf if none
StepsTo(g, S, goal, n) ==
    IF goal \in S THEN n
    ELSE LET T == S \cup {q \in FreeCells(g, {}) : \E p \in S : Manhattan(p, q) = 1}
         IN  IF T = S THEN Inf ELSE StepsTo(g, T, goal, n + 1)

ShortestMoves(g) == StepsTo(g, {g.start}, g.goal, 0)

-----------------------------------------------------------------------------
(* C25: Simulation::run is deterministic *)

\* the outcomes of the next find_path of the run, over the iteration orders
FindPathOutcomes ==
    {algorithm_find_path(sim.algorithm, grid, sim.agent.position, grid.goal,
                         sim.agent.known_obstacles, order) : order \in HashOrders}

\* the outcomes of the next update_obstacles_from_timeline
AdvanceOutcomes ==
    {update_obstacles_from_timeline(sim, grid, order) : order \in HashOrders}

\* C25: two executions of run from the same EnvironmentSetup with the same
\* engine type produce the same sequence of placed obstacle sets and the same
\* sequence of agent positions, whatever the iteration order of the hash
\* sets: every step of the run has one outcome.
C25_RunIsDeterministic ==
    Running =>
       /\ sim.pc \in {"start", "replan"} => Cardinality(FindPathOutcomes) = 1
       /\ sim.pc = "loop" /\ loop_condition(sim, grid) => Cardinality(AdvanceOutcomes) = 1

\* D* Lite replans with two known obstacles (update_changed_obstacles
\* iterates a HashSet of at least four positions) in a run that has placed a
\* group of two cells
C25_Witness ==
    /\ sim.pc = "replan" /\ sim.algorithm.name = "d_star_lite"
    /\ Cardinality(sim.agent.known_obstacles) >= 2
    /\ \E b \in seen.births : Cardinality(b.positions) >= 2
    /\ Len(seen.positions) >= 2

-----------------------------------------------------------------------------
(* C26: the rows of a batch *)

\* the indices of the rows of simulation id
RowsOf(id) == {i \in 1..Len(batch.results) : batch.results[i].simulation_id = id}

\* C26: every simulation of a batch that is over has one row per algorithm
\* executed, three (a_star, d_star_lite, hybrid) when the algorithm is
\* 'all' and one otherwise, whether its setup succeeded or failed; the rows
\* of a failed setup have success = false and total_moves = 0; and
\* run_configuration does not return an error.
C26_OneRowPerAlgorithm ==
    batch.pc # "none" =>
       /\ \A id \in 0..(batch.sim_id - 1) :
             /\ Cardinality(RowsOf(id)) = IF batch.config.algorithm = "all" THEN 3 ELSE 1
             /\ {batch.results[i].algorithm : i \in RowsOf(id)}
                   = IF batch.config.algorithm = "all"
                     THEN {"a_star", "d_star_lite", "hybrid"}
                     ELSE {batch.config.algorithm}
             /\ id \in batch.setup_failed =>
                   \A i \in RowsOf(id) : ~batch.results[i].success
                                          /\ batch.results[i].total_moves = 0
       /\ batch.returned # "Err"

-----------------------------------------------------------------------------
(* C27: the loop condition of compute_shortest_path *)

\* numerically less, lexicographic on (k1, k2)
KeyNumLt(a, b) == a[1] < b[1] \/ (a[1] = b[1] /\ a[2] < b[2])

\* the numerically smallest key in U
SmallestKey(queue) ==
    CHOOSE k \in {e[1] : e \in queue} : \A e \in queue : KeyNumLe(k, e[1])

\* U is non-empty and (the smallest key is below key(s_start) or
\* rhs(s_start) differs from g(s_start))
KeepsProcessing(self) ==
    /\ self.queue # {}
    /\ \/ KeyNumLt(SmallestKey(self.queue), calculate_key(self, self.start))
       \/ GetOr(self.rhs_scores, self.start) # GetOr(self.g_scores, self.start)

\* C27: at the head of its loop compute_shortest_path goes on exactly while U
\* is non-empty and (the numerically smallest key in U is less than
\* key(s_start) or rhs(s_start) differs from g(s_start)).
C27_LoopCondition ==
    pc = "compute" => (ENABLED ComputePop <=> KeepsProcessing(dsl))

-----------------------------------------------------------------------------
(* C28: the popped entry is reinserted or expanded *)

\* the vertex popped by the next iteration, its old key and its fresh one
PoppedVertex == QueueTop(dsl.queue)[2]
PoppedOldKey == QueueTop(dsl.queue)[1]
PoppedNewKey == calculate_key(dsl, PoppedVertex)

\* the iteration reinserts the vertex with k_new and leaves g alone
Reinserted ==
    /\ <<PoppedNewKey, PoppedVertex>> \in dsl'.queue
    /\ dsl'.g_scores = dsl.g_scores

\* the iteration expands the vertex: g = rhs if g > rhs, else g = infinity
Expanded ==
    GetOr(dsl'.g_scores, PoppedVertex)
       = IF GetOr(dsl.g_scores, PoppedVertex) > GetOr(dsl.rhs_scores, PoppedVertex)
         THEN GetOr(dsl.rhs_scores, PoppedVertex)
         ELSE Inf

\* C28: when the popped key k_old is numerically smaller than the fresh key
\* k_new of the vertex, the vertex is reinserted with k_new and its g is
\* unchanged in that iteration; otherwise the vertex is expanded.
C28_ReinsertOrExpand ==
    [][ComputePop => IF KeyNumLt(PoppedOldKey, PoppedNewKey) THEN Reinserted ELSE Expanded]_vars

-----------------------------------------------------------------------------
(* C29: k_m when the start moves *)

\* find_path is entered with a start that differs from the stored one, after
\* the initial computation (the goal of the calls is always grid.goal)
StartMoves ==
    /\ pc = "idle" /\ pc' = "initialize"
    /\ dsl.initial_computation_done
    /\ call'.start # dsl.start

\* C29: when find_path is called with the same goal and a start that differs
\* from the stored s_start, k_m increases by exactly the Manhattan distance
\* between s_last and the new start (so that k_m is the sum of the distances
\* of all moves made so far, the most recent one included).
C29_KmIncreasesByMove ==
    [][StartMoves => dsl'.k_m = dsl.k_m + Manhattan(dsl.last_start, call'.start)]_vars

-----------------------------------------------------------------------------
(* C30: the vertices updated for a change of the obstacles *)

\* the positions that entered or left the obstacle set since the call before
ChangedObstacles ==
    (call.obstacles \ prev.call.obstacles) \cup (prev.call.obstacles \ call.obstacles)

ChangedAndNeighbors ==
    ChangedObstacles \cup UNION {SeqToSet(get_neighbors(grid, o)) : o \in ChangedObstacles}

\* C30: the vertices update_vertex is applied to for the obstacles of a
\* call, before compute_shortest_path runs, are the positions that entered
\* or left the obstacle set since the previous call and their neighbors:
\* removed obstacles are propagated, vertices far from any change are not
\* re-keyed, and no vertex is updated when the set is unchanged.
C30_UpdatesFollowObstacleChanges ==
    after = "initialize" => pending = ChangedAndNeighbors

-----------------------------------------------------------------------------
(* C31: a call with a new goal *)

\* the call in progress, or the last one, came with a goal other than the
\* stored one
GoalChanged == calls + (IF pc = "idle" THEN 0 ELSE 1) > 0 /\ prev.call.goal # call.goal

\* what the first call on new engines for (start, goal) returns, and the
\* engines it leaves
FreshCalls ==
    {DStarLite_find_path(DStarLite_new(call.start, call.goal), grid, call.start, call.goal,
                         call.obstacles, order) : order \in HashOrders}

\* C31: a find_path call with a goal different from the stored one
\* reinitializes the engine (g, rhs and U cleared, k_m = 0, rhs(goal) = 0,
\* s_last = start, the new goal the only queue entry before the search
\* starts) and returns what the first call on a newly constructed engine for
\* (start, new goal) returns with the same grid and obstacles.
C31_GoalChangeReinitializes ==
    GoalChanged =>
       /\ after = "initialize" =>
             /\ dsl.g_scores = << >>
             /\ dsl.rhs_scores = MapInsert(<< >>, call.goal, 0)
             /\ dsl.queue = {<<calculate_key(dsl, call.goal), call.goal>>}
             /\ dsl.k_m = 0
             /\ dsl.last_start = call.start /\ dsl.start = call.start /\ dsl.goal = call.goal
       /\ pc = "compute" /\ iterations = 0 =>
             {e[2] : e \in dsl.queue} = {call.goal}
       /\ Returned => FreshCalls = {[self |-> dsl, result |-> result]}

\* the second or third call came with a new goal and obstacles, and
\* returned a path
C31_Witness ==
    /\ Returned /\ calls >= 2 /\ GoalChanged
    /\ call.obstacles # {} /\ call.start # grid.start
    /\ result # None

-----------------------------------------------------------------------------
(* C32: find_path terminates *)

\* the obstacles of the call cut the goal off from its start
GoalCutOff == ~PathExists(grid, call.start, call.goal, call.obstacles)

\* C32: every find_path call terminates, for every grid, obstacle set and
\* history of calls; when the obstacles make the goal unreachable from the
\* start, compute_shortest_path ends with U empty, not at its budget of
\* 4 * N * N iterations, and find_path returns none; and the path that is
\* reconstructed never gets more than N * N appended cells.
C32_FindPathTerminates ==
    /\ (pc # "idle") ~> (pc = "idle")
    /\ [](pc = "extract" /\ GoalCutOff => csp_exit = "empty")
    /\ [](Returned /\ GoalCutOff => result = None)
    /\ [](Returned /\ result # None => Len(result) - 1 <= grid.size * grid.size)

-----------------------------------------------------------------------------
(* C33: the lazy-deletion queue of DStarLiteSimple *)

\* the locals the next iteration starts from, and the arguments of the call
Locals == simple.st
Args == simple.args

\* the vertex is locally inconsistent
SimpleInconsistent(st, pos) ==
    simple_get_g(st.cell_data, pos) # simple_get_rhs(st.cell_data, pos, Args.goal)

\* an entry is stale when a later entry of its vertex was enqueued or its
\* vertex is consistent
Stale(st, e) == e.hash_code # simple.latest[e.pos] \/ ~SimpleInconsistent(st, e.pos)

RECURSIVE Discarded(_, _)
\* the entries the lazy deletion drops before it finds the one to process
Discarded(open_queue, queue_hash) ==
    IF open_queue = <<>> THEN {}
    ELSE LET r == heap_pop("QueueEntry", open_queue)
         IN  IF r.item.pos \in DOMAIN queue_hash /\ queue_hash[r.item.pos] = r.item.hash_code
             THEN {}
             ELSE {r.item} \cup Discarded(r.data, queue_hash)

\* an iteration of the main loop is about to be made
Iterating ==
    /\ simple.pc = "loop"
    /\ ~simple_loop_ends(Locals, Args.start, Args.goal, simple.self.k_m)

\* C33: every entry the main loop processes is the most recently enqueued
\* entry of its vertex, and the vertex is locally inconsistent then; the
\* entries dropped when popped are superseded by a later enqueue or belong to
\* a vertex that became consistent; and the processed entry has the
\* numerically smallest key among the entries that are not stale.
C33_LazyDeletion ==
    Iterating =>
       LET r == simple_pop_valid(Locals.open_queue, Locals.queue_hash)
       IN  /\ \A e \in Discarded(Locals.open_queue, Locals.queue_hash) : Stale(Locals, e)
           /\ r.found =>
                 /\ ~Stale(Locals, r.entry)
                 /\ \A i \in 1..Len(Locals.open_queue) :
                       ~Stale(Locals, Locals.open_queue[i])
                          => KeyNumLe(r.entry.key, Locals.open_queue[i].key)

\* in a later call, after the start has moved, an iteration drops two stale
\* entries and processes an entry while other entries that are not stale wait
C33_Witness ==
    /\ Iterating /\ simple.calls >= 1 /\ simple.self.k_m > 0
    /\ Cardinality(Discarded(Locals.open_queue, Locals.queue_hash)) >= 2
    /\ simple_pop_valid(Locals.open_queue, Locals.queue_hash).found
    /\ \E i, j \in 1..Len(Locals.open_queue) :
          /\ i # j
          /\ ~Stale(Locals, Locals.open_queue[i])
          /\ ~Stale(Locals, Locals.open_queue[j])

-----------------------------------------------------------------------------
(* C34: the agent stands on a free cell *)

\* the cells of the active obstacle groups
ActiveCells ==
    UNION {sim.active_obstacle_groups[i].positions : i \in 1..Len(sim.active_obstacle_groups)}

\* the advance step of this tick took a group of the timeline that names the
\* cell the agent stood on
PlacementOnAgent ==
    /\ sim.current_obstacle_cycle = seen.cycle_before + 1
    /\ seen.position_before \in sim.environment.obstacle_timeline[sim.current_obstacle_cycle]

\* C34: throughout Simulation::run the cell of the agent is neither a Wall
\* nor an Obstacle: the agent never steps onto an Obstacle, and no obstacle
\* of an active group lies on the agent's cell.
C34_AgentOnFreeCell ==
    /\ grid.cells[sim.agent.position] \notin {"Wall", "Obstacle"}
    /\ sim.agent.position \notin ActiveCells

\* away from the start, a group of the timeline that names the agent's cell
\* was taken this tick, and the agent has moved next to an Obstacle since
C34_Witness ==
    /\ seen.ticks > 0 /\ PlacementOnAgent
    /\ seen.position_before # grid.start
    /\ seen.steps[Len(seen.steps)] = "move"
    /\ sim.agent.position # seen.position_before
    /\ \E i \in 1..Len(get_neighbors(grid, sim.agent.position)) :
          grid.cells[get_neighbors(grid, sim.agent.position)[i]] = "Obstacle"

-----------------------------------------------------------------------------
(* C35: the agent and its path *)

\* the agent stands on the cell of its path that path_index names
OnPath(agent) ==
    agent.current_path # None =>
       /\ agent.path_index + 1 \in 1..Len(agent.current_path)
       /\ agent.position = agent.current_path[agent.path_index + 1]

\* C35: whenever the agent has a current path, its position is
\* current_path[path_index]; installing a path (set_path, after the initial
\* find_path or a replanning) never changes the position; and the position
\* changes only in the move step, by one step to a 4-neighbour.
C35_AgentFollowsPath ==
    /\ [](OnPath(sim.agent))
    /\ [][sim.pc \in {"start", "replan"} => sim'.agent.position = sim.agent.position]_vars
    /\ [][sim'.agent.position # sim.agent.position
            => sim.pc = "move" /\ Manhattan(sim.agent.position, sim'.agent.position) = 1]_vars

\* a path that was installed away from the start after a replanning, and
\* two moves made along it
C35_Witness ==
    /\ sim.agent.current_path # None /\ sim.agent.path_index >= 2
    /\ sim.agent.current_path[1] # grid.start
    /\ seen.ticks >= 3 /\ sim.agent.known_obstacles # {}

-----------------------------------------------------------------------------
(* C36: the Obstacle cells and the active groups *)

\* the cells of the grid that are Obstacle
CellsOfObstacles == {p \in DOMAIN grid.cells : grid.cells[p] = "Obstacle"}

GroupsDisjoint ==
    \A i, j \in 1..Len(sim.active_obstacle_groups) :
       i # j => sim.active_obstacle_groups[i].positions
                  \cap sim.active_obstacle_groups[j].positions = {}

\* C36: after every obstacle-advance step the Obstacle cells of the grid are
\* exactly the union of the positions of the active groups, and the groups
\* are pairwise disjoint; when run has returned no cell is an Obstacle and no
\* group is active.
C36_ObstaclesAreActiveGroups ==
    /\ seen.ticks > 0 /\ sim.pc # "done" => CellsOfObstacles = ActiveCells /\ GroupsDisjoint
    /\ sim.pc = "done" => CellsOfObstacles = {} /\ sim.active_obstacle_groups = <<>>

\* an advance step has just placed the second group of a timeline whose two
\* groups name a common cell, while the first group is still active
C36_Witness ==
    /\ sim.pc = "observe" /\ Len(sim.active_obstacle_groups) = 2
    /\ sim.current_obstacle_cycle = 2
    /\ sim.environment.obstacle_timeline[1] \cap sim.environment.obstacle_timeline[2] # {}

-----------------------------------------------------------------------------
(* C37: total_moves against optimal_path_length *)

\* C37: for every run that ends with the agent at the goal, total_moves is at
\* least optimal_path_length.
C37_MovesAtLeastOptimal ==
    sim.pc = "done" /\ EndedAtGoal => sim.total_moves >= sim.optimal_path_length

\* a run that reached the goal after a replanning around an obstacle, with
\* more moves than the optimal length
C37_Witness ==
    /\ sim.pc = "done" /\ EndedAtGoal /\ sim.total_moves > sim.optimal_path_length
    /\ sim.agent.known_obstacles # {} /\ sim.agent.current_path[1] # grid.start

-----------------------------------------------------------------------------
(* C38: total_moves counts the iterations *)

\* between two iterations of the loop of run, or after it
BetweenIterations == sim.pc \in {"loop", "break", "done"}

\* C38: every completed iteration of the loop of run adds exactly 1 to
\* total_moves, by a move or by a stuck wait, so total_moves is the number of
\* completed iterations (an iteration left by break is not completed and
\* adds nothing).
C38_EveryIterationCounts ==
    BetweenIterations => sim.total_moves = sim.total_iterations

-----------------------------------------------------------------------------
(* Simulation::run with the cycles of EnvironmentSetup::generate, on a grid
   whose only route is long enough for a group to expire during the run *)

\* a corridor of nine moves from the start to the goal
CycGrid ==
    MakeGrid(4, {<<0, 1>>, <<1, 1>>, <<2, 1>>, <<1, 3>>, <<2, 3>>, <<3, 3>>},
             <<0, 0>>, <<0, 3>>)

\* the cells the timeline names: cells of the corridor
CycGroups ==
    {O \in SUBSET {<<3, 2>>, <<2, 2>>, <<1, 2>>} : O # {} /\ Cardinality(O) <= MaxObstacles + 1}

CycTimelines == UNION {[1..n -> CycGroups] : n \in 0..MaxGroups}

\* lines 70-71: obstacle_cycle_interval and obstacle_persistence_cycles
CycEnvironments ==
    {[obstacle_timeline           |-> t,
      obstacle_cycle_interval     |-> 5,
      obstacle_persistence_cycles |-> 5] : t \in CycTimelines}

CycInit ==
    /\ grid = CycGrid
    /\ \E name \in SimAlgorithms : \E environment \in CycEnvironments :
          sim = Simulation_new(name, grid, environment)
    /\ seen = SeenAtStart(grid)
    /\ batch = NoBatch
    /\ simple = NoSimple
    /\ dsl = DStarLite_new(grid.start, grid.goal)
    /\ pc = "idle"
    /\ call = NoCall(grid)
    /\ pending = {}
    /\ todo = <<>>
    /\ iterations = 0
    /\ csp_exit = "none"
    /\ result = None
    /\ prev = [call |-> NoCall(grid), result |-> None]
    /\ calls = 0
    /\ after = "new"
    /\ hybrid = HybridAStarDStar_new(grid.start, grid.goal)
    /\ branch = "none"
    /\ obs = NoObs(grid)

SpecCyc == CycInit /\ [][SimNext]_vars

-----------------------------------------------------------------------------
(* C39: one group at a time under the cycles of generate *)

\* obstacle_cycle_interval = 5 and obstacle_persistence_cycles = 5
GeneratedCycles ==
    /\ sim.environment.obstacle_cycle_interval = 5
    /\ sim.environment.obstacle_persistence_cycles = 5

\* C39: with obstacle_cycle_interval = 5 and obstacle_persistence_cycles = 5,
\* at the end of every advance step at most one obstacle group is active: a
\* group expires in the very step, and before, the next one is placed.
C39_AtMostOneGroup ==
    GeneratedCycles /\ seen.ticks > 0 => Len(sim.active_obstacle_groups) <= 1

\* the advance step of tick 10 has removed the group placed in tick 5 and
\* placed the second group of the timeline
C39_Witness ==
    /\ GeneratedCycles /\ sim.pc = "observe" /\ seen.tick = 10
    /\ Len(seen.groups_before) = 1 /\ seen.groups_before[1].cycles_remaining = 1
    /\ Len(sim.active_obstacle_groups) = 1
    /\ sim.active_obstacle_groups[1].cycles_remaining = 5
    /\ sim.current_obstacle_cycle = 2

-----------------------------------------------------------------------------
(* C40: DStarLiteSimple does not depend on earlier calls *)

\* what the call that has just returned gives on an engine that was never used
FreshSimpleResult ==
    DStarLiteSimple_find_path(DStarLiteSimple_new, grid, Args.start, Args.goal,
                              Args.obstacles).result

\* C40: the result of DStarLiteSimple::find_path depends only on the grid,
\* start, goal and obstacles of the current call: it is the result of the same
\* call on a new engine, whatever calls came before and whatever k_m is.
C40_SimpleIgnoresHistory ==
    simple.pc = "idle" /\ simple.calls > 0 => simple.result = FreshSimpleResult

\* a third call, after the start has moved twice towards a goal that stayed,
\* that returns a path around an obstacle
C40_Witness ==
    /\ simple.pc = "idle" /\ simple.calls >= 3 /\ simple.self.k_m >= 2
    /\ Args.obstacles # {} /\ simple.result # None

====
